---------------------------- MODULE Spec2Model ----------------------------
(***************************************************************************)
(* A model of PaperTree's PDF structure extraction:                        *)
(*   - papers/extraction.py : class PDFExtractor (blocks with source       *)
(*     mapping, images, outline, plain text)                               *)
(*   - papers/services.py   : extract_structured_content and its helpers   *)
(*     (the "book mode" block list with references mode)                   *)
(*                                                                         *)
(* A string is a sequence of characters.  An ASCII character is the        *)
(* one-character string; a non-ASCII character is written as its code      *)
(* point, "U+03B1".  The document (what PyMuPDF answers for a file) is the *)
(* variable doc: it is drawn in the initial state and never changes.       *)
(***************************************************************************)
EXTENDS Integers, Sequences, FiniteSets, TLC

VARIABLES
    doc,                \* the opened document: pages, toc (fitz.Document)
    self_doc,           \* PDFExtractor.doc: None, or the handle "open" or "closed"
    pc,                 \* position of the running program
    run,                \* 1 for the first PDFExtractor.extract() on doc, 2 for the second
    first,              \* the ExtractionResult of the first run (<<>> while there is none)
    page_count,         \* extract(): page_count
    page_num,           \* extract(): loop variable of the second pass
    line_idx,           \* number of lines of the current page already processed
    current_paragraph,  \* _extract_page(): current_paragraph
    blocks,             \* PDFExtractor.blocks
    images,             \* PDFExtractor.images: image id -> ExtractedImage
    outline,            \* PDFExtractor.outline
    plain_text_parts,   \* PDFExtractor.plain_text_parts
    char_offset,        \* PDFExtractor.char_offset
    median_font_size,   \* PDFExtractor.median_font_size
    result,             \* the value extract() returned (<<>> before it returns)
    s_page,             \* extract_structured_content(): page_num
    s_block,            \* extract_structured_content(): blocks of the page already consumed
    s_blocks,           \* extract_structured_content(): blocks
    s_paragraph,        \* extract_structured_content(): current_paragraph
    in_references,      \* extract_structured_content(): in_references
    reference_items,    \* extract_structured_content(): reference_items
    s_result            \* the value extract_structured_content() returned

ex_vars == <<self_doc, run, first, page_count, page_num, line_idx, current_paragraph, blocks,
             images, outline, plain_text_parts, char_offset, median_font_size, result>>
svc_vars == <<s_page, s_block, s_blocks, s_paragraph, in_references, reference_items,
              s_result>>
vars == <<doc, pc, ex_vars, svc_vars>>

None == "None"

(***************************************************************************)
(* Characters                                                              *)
(***************************************************************************)
LowerSeq ==
    <<"a","b","c","d","e","f","g","h","i","j","k","l","m",
      "n","o","p","q","r","s","t","u","v","w","x","y","z">>
UpperSeq ==
    <<"A","B","C","D","E","F","G","H","I","J","K","L","M",
      "N","O","P","Q","R","S","T","U","V","W","X","Y","Z">>
AsciiLower == {LowerSeq[i] : i \in 1..26}
AsciiUpper == {UpperSeq[i] : i \in 1..26}
Digits == {"0","1","2","3","4","5","6","7","8","9"}

\* The non-ASCII characters of the model's alphabet, with their code points.
CodePoint ==
    [c \in {"U+03B1", "U+03B2", "U+2211", "U+FB01", "U+200B", "U+00AD",
            "U+2013", "U+2022"} |->
        CASE c = "U+03B1" -> 945      \* Greek small alpha
          [] c = "U+03B2" -> 946      \* Greek small beta
          [] c = "U+2211" -> 8721     \* n-ary summation
          [] c = "U+FB01" -> 64257    \* ligature fi
          [] c = "U+200B" -> 8203     \* zero width space
          [] c = "U+00AD" -> 173      \* soft hyphen
          [] c = "U+2013" -> 8211     \* en dash
          [] c = "U+2022" -> 8226]    \* bullet

\* str.isspace(): of the alphabet, the blank and the line break.  The zero width
\* space and the soft hyphen are format characters, not white space.
SpaceChars == {" ", "\n"}
IsSpace(c) == c \in SpaceChars
\* re: \d
IsDigit(c) == c \in Digits
\* re: \w (letters of any script, digits, underscore)
IsWord(c) == c \in AsciiLower \cup AsciiUpper \cup Digits \cup {"_", "U+03B1", "U+03B2", "U+FB01"}
\* cased characters, for str.isupper()
IsLowerCased(c) == c \in AsciiLower \cup {"U+03B1", "U+03B2", "U+FB01"}
IsUpperCased(c) == c \in AsciiUpper

\* str.lower() on one character
LowerChar(c) ==
    IF c \in AsciiUpper THEN LowerSeq[CHOOSE i \in 1..26 : UpperSeq[i] = c] ELSE c

(***************************************************************************)
(* Strings                                                                 *)
(***************************************************************************)
\* str.lower()
Lower(s) == [i \in 1..Len(s) |-> LowerChar(s[i])]

\* s[i:] with a 0-based i, as Python slices
From(s, i) == SubSeq(s, i + 1, Len(s))

RECURSIVE LStrip(_)
LStrip(s) == IF s # <<>> /\ IsSpace(s[1]) THEN LStrip(Tail(s)) ELSE s

RECURSIVE RStrip(_)
RStrip(s) ==
    IF s # <<>> /\ IsSpace(s[Len(s)]) THEN RStrip(SubSeq(s, 1, Len(s) - 1)) ELSE s

\* str.strip()
Strip(s) == LStrip(RStrip(s))

\* str.rstrip('.')
RECURSIVE RStripDots(_)
RStripDots(s) ==
    IF s # <<>> /\ s[Len(s)] = "." THEN RStripDots(SubSeq(s, 1, Len(s) - 1)) ELSE s

\* str.endswith(c) for a one-character c
EndsWith(s, c) == s # <<>> /\ s[Len(s)] = c

\* str.startswith(p)
StartsWith(s, p) == Len(s) >= Len(p) /\ SubSeq(s, 1, Len(p)) = p

\* p in s
Contains(s, p) == \E i \in 0..(Len(s) - Len(p)) : SubSeq(s, i + 1, i + Len(p)) = p

\* str.isupper(): some cased character, and no lower-case one
IsUpperStr(s) ==
    /\ \E i \in 1..Len(s) : IsUpperCased(s[i])
    /\ \A i \in 1..Len(s) : ~IsLowerCased(s[i])

\* the length of the longest prefix of s whose characters all lie in the set cls
RunLen(s, cls) ==
    LET out == {i \in 1..Len(s) : s[i] \notin cls}
    IN  IF out = {} THEN Len(s)
        ELSE (CHOOSE i \in out : \A j \in out : i <= j) - 1

\* c in s, for a character c
Has(s, c) == \E i \in 1..Len(s) : s[i] = c

\* ' '.join(parts)
RECURSIVE JoinSpace(_)
JoinSpace(parts) ==
    IF parts = <<>> THEN <<>>
    ELSE IF Len(parts) = 1 THEN parts[1]
    ELSE parts[1] \o <<" ">> \o JoinSpace(Tail(parts))

\* "\n\n".join(parts)
RECURSIVE JoinBlankLine(_)
JoinBlankLine(parts) ==
    IF parts = <<>> THEN <<>>
    ELSE IF Len(parts) = 1 THEN parts[1]
    ELSE parts[1] \o <<"\n", "\n">> \o JoinBlankLine(Tail(parts))

\* ''.join(pieces[lo..hi]), by halves
RECURSIVE Concat(_, _, _)
Concat(pieces, lo, hi) ==
    IF lo > hi THEN <<>>
    ELSE IF lo = hi THEN pieces[lo]
    ELSE LET mid == (lo + hi) \div 2
         IN  Concat(pieces, lo, mid) \o Concat(pieces, mid + 1, hi)

\* ''.join(pieces)
Flat(pieces) == Concat(pieces, 1, Len(pieces))

\* text.replace(old, new) for every entry old -> new of a table whose keys are
\* single characters and whose replacements hold no key: one pass over the
\* characters does what the successive replace calls do.
ReplaceChars(s, table) ==
    Flat([i \in 1..Len(s) |->
            IF s[i] \in DOMAIN table THEN table[s[i]] ELSE <<s[i]>>])

\* text.replace(old, new) for a non-empty old
RECURSIVE ReplaceSub(_, _, _)
ReplaceSub(s, old, new) ==
    IF ~Contains(s, old) THEN s
    ELSE IF SubSeq(s, 1, Len(old)) = old
         THEN new \o ReplaceSub(From(s, Len(old)), old, new)
         ELSE <<s[1]>> \o ReplaceSub(Tail(s), old, new)

\* re.sub(r' +', ' ', text): of a run of blanks the last one stays
CollapseSpaces(s) ==
    Flat([i \in 1..Len(s) |->
            IF s[i] = " " /\ i < Len(s) /\ s[i + 1] = " " THEN <<>> ELSE <<s[i]>>])

Punct == {".", ",", ";", ":", "!", "?"}

\* re.sub(r'\s+([.,;:!?])', r'\1', text): white space goes when the run of white
\* space it stands in ends at a punctuation mark
DropSpaceBeforePunct(s) ==
    Flat([i \in 1..Len(s) |->
            IF /\ IsSpace(s[i])
               /\ \E j \in (i + 1)..Len(s) :
                     /\ s[j] \in Punct
                     /\ \A k \in i..(j - 1) : IsSpace(s[k])
            THEN <<>> ELSE <<s[i]>>])


(***************************************************************************)
(* papers/extraction.py: constants and pure helpers                        *)
(***************************************************************************)
\* BoundingBox coordinates are quotients rect.x / page width: a quotient is kept
\* as numerator and (positive) denominator, and compared by cross-multiplication.
Frac(n, d) == [num |-> n, den |-> d]
FracLeq(a, b) == a.num * b.den <= b.num * a.den
FracZero == Frac(0, 1)
FracOne == Frac(1, 1)

\* fitz.Rect.width, fitz.Rect.height
RectWidth(r) == IF r.x1 > r.x0 THEN r.x1 - r.x0 ELSE 0
RectHeight(r) == IF r.y1 > r.y0 THEN r.y1 - r.y0 ELSE 0

\* BoundingBox.from_rect(rect, page_rect)
from_rect(rect, page_rect) ==
    LET pw == RectWidth(page_rect)
        ph == RectHeight(page_rect)
    IN  [x0 |-> Frac(rect.x0, pw), y0 |-> Frac(rect.y0, ph),
         x1 |-> Frac(rect.x1, pw), y1 |-> Frac(rect.y1, ph)]

\* MATH_CHAR_RANGES of extraction.py (code points, decimal)
MATH_CHAR_RANGES ==
    { <<880, 1023>>, <<8704, 8959>>, <<8448, 8527>>, <<8592, 8703>>,
      <<10176, 10223>>, <<10624, 10751>>, <<10752, 11007>>,
      <<119808, 120831>>, <<8304, 8351>> }

\* MATH_FONTS of extraction.py
MATH_FONTS ==
    { <<"c","m","m","i">>, <<"c","m","s","y">>, <<"c","m","e","x">>,
      <<"m","s","a","m">>, <<"m","s","b","m">>, <<"c","m","r">>,
      <<"s","y","m","b","o","l">>, <<"m","t"," ","e","x","t","r","a">>,
      <<"m","a","t","h","e","m","a","t","i","c","a">>, <<"s","t","i","x">>,
      <<"c","a","m","b","r","i","a"," ","m","a","t","h">>,
      <<"a","s","a","n","a">>, <<"x","i","t","s">>,
      <<"l","a","t","i","n","m","o","d","e","r","n">>, <<"e","u","l","e","r">>,
      <<"f","o","u","r","i","e","r">>, <<"n","e","w","c","m">>,
      <<"l","i","b","e","r","t","i","n","u","s">>,
      <<"g","a","r","a","m","o","n","d","-","m","a","t","h">> }

\* COMMON_SECTIONS of extraction.py
COMMON_SECTIONS ==
    { <<"a","b","s","t","r","a","c","t">>,
      <<"i","n","t","r","o","d","u","c","t","i","o","n">>,
      <<"b","a","c","k","g","r","o","u","n","d">>,
      <<"r","e","l","a","t","e","d"," ","w","o","r","k">>,
      <<"m","e","t","h","o","d","o","l","o","g","y">>,
      <<"m","e","t","h","o","d","s">>,
      <<"m","a","t","e","r","i","a","l","s"," ","a","n","d"," ","m","e","t","h","o","d","s">>,
      <<"a","p","p","r","o","a","c","h">>,
      <<"e","x","p","e","r","i","m","e","n","t","s">>,
      <<"e","x","p","e","r","i","m","e","n","t","a","l"," ","s","e","t","u","p">>,
      <<"e","v","a","l","u","a","t","i","o","n">>,
      <<"r","e","s","u","l","t","s">>,
      <<"f","i","n","d","i","n","g","s">>,
      <<"a","n","a","l","y","s","i","s">>,
      <<"d","i","s","c","u","s","s","i","o","n">>,
      <<"l","i","m","i","t","a","t","i","o","n","s">>,
      <<"f","u","t","u","r","e"," ","w","o","r","k">>,
      <<"c","o","n","c","l","u","s","i","o","n">>,
      <<"c","o","n","c","l","u","s","i","o","n","s">>,
      <<"s","u","m","m","a","r","y">>,
      <<"a","c","k","n","o","w","l","e","d","g","m","e","n","t","s">>,
      <<"a","c","k","n","o","w","l","e","d","g","e","m","e","n","t","s">>,
      <<"r","e","f","e","r","e","n","c","e","s">>,
      <<"b","i","b","l","i","o","g","r","a","p","h","y">>,
      <<"a","p","p","e","n","d","i","x">>,
      <<"s","u","p","p","l","e","m","e","n","t","a","r","y">> }

\* is_math_char(char): an ASCII character has a code point below every range
is_math_char(c) ==
    /\ c \in DOMAIN CodePoint
    /\ \E r \in MATH_CHAR_RANGES : r[1] <= CodePoint[c] /\ CodePoint[c] <= r[2]

\* is_math_font(font_name)
ContainsMathFont(font_lower) == \E mf \in MATH_FONTS : Contains(font_lower, mf)

is_math_font(font) == font # <<>> /\ ContainsMathFont(Lower(font))

\* The loop over a line's spans in _process_text_block: the concatenated text,
\* the largest font size, bold (flags & 16; flags are kept as the set of the
\* bits that are set), and the two character counts of the math ratio.
RECURSIVE SpanSignals(_, _)
SpanSignals(spans, acc) ==
    IF spans = <<>> THEN acc
    ELSE LET sp == spans[1]
             \* is_math_char(char) or is_math_font(font), counted over the characters
             mc == IF is_math_font(sp.font) THEN Len(sp.text)
                   ELSE Cardinality({i \in 1..Len(sp.text) : is_math_char(sp.text[i])})
         IN  SpanSignals(Tail(spans),
                 [line_text |-> acc.line_text \o sp.text,
                  max_font_size |-> IF sp.size > acc.max_font_size
                                    THEN sp.size ELSE acc.max_font_size,
                  is_bold |-> acc.is_bold \/ (16 \in sp.flags),
                  total_chars |-> acc.total_chars + Len(sp.text),
                  math_chars |-> acc.math_chars + mc])

LineSignals(line) ==
    LET acc == SpanSignals(line.spans,
                   [line_text |-> <<>>, max_font_size |-> 0, is_bold |-> FALSE,
                    total_chars |-> 0, math_chars |-> 0])
    IN  [acc EXCEPT !.line_text = Strip(acc.line_text)]

\* re: \s+(.+)$ at the start of s (a line's text holds no line break)
MatchSpaceThenAny(s) ==
    LET n == RunLen(s, SpaceChars)
    IN  n >= 1 /\ (Len(s) > n \/ n >= 2)

\* re: ^\d+\.(?:\d+\.)* ; the number of "digits-dot" groups matched at the
\* start of s (0: no match) and the length of the match
RECURSIVE NumGroups(_)
NumGroups(s) ==
    LET n == RunLen(s, Digits)
    IN  IF n >= 1 /\ Len(s) > n /\ s[n + 1] = "."
        THEN 1 + NumGroups(From(s, n + 1)) ELSE 0

RECURSIVE NumPrefixLen(_)
NumPrefixLen(s) ==
    LET n == RunLen(s, Digits)
    IN  IF n >= 1 /\ Len(s) > n /\ s[n + 1] = "."
        THEN n + 1 + NumPrefixLen(From(s, n + 1)) ELSE 0

\* SECTION_PATTERNS, each matched with re.IGNORECASE
SectionPattern1(s) ==
    NumPrefixLen(s) > 0 /\ MatchSpaceThenAny(From(s, NumPrefixLen(s)))
SectionPattern2(s) ==
    LET r == RunLen(Lower(s), {"i", "v", "x", "l", "c"})
        d == IF Len(s) > r /\ s[r + 1] = "." THEN 1 ELSE 0
    IN  r >= 1 /\ MatchSpaceThenAny(From(s, r + d))
SectionPattern3(s) ==
    /\ Len(s) >= 2
    /\ s[1] \in AsciiLower \cup AsciiUpper
    /\ s[2] = "."
    /\ MatchSpaceThenAny(From(s, 2))

\* the characters of the list patterns of _classify_line and _add_list_item
\* (bullet, middle dot, black and white circle, small square, triangle; the
\* hyphen, the en dash and the em dash)
ListBullets == {"U+2022", "U+00B7", "U+25CF", "U+25CB", "U+25AA", "U+25B8"}
ListDashes == {"-", "U+2013", "U+2014"}

\* re: \([a-z\d]+\) at the start of s: the length of the match, 0 for none
ParenMarkerLen(s) ==
    IF s # <<>> /\ s[1] = "("
    THEN LET n == RunLen(Tail(s), AsciiLower \cup Digits)
         IN  IF n >= 1 /\ Len(s) >= n + 2 /\ s[n + 2] = ")" THEN n + 2 ELSE 0
    ELSE 0

\* re: \d+[.)] at the start of s: the length of the match, 0 for none
NumMarkerLen(s) ==
    LET n == RunLen(s, Digits)
    IN  IF n >= 1 /\ Len(s) > n /\ s[n + 1] \in {".", ")"} THEN n + 1 ELSE 0

\* re: [a-z][.)] at the start of s
LetterMarkerLen(s) ==
    IF Len(s) >= 2 /\ s[1] \in AsciiLower /\ s[2] \in {".", ")"} THEN 2 ELSE 0

\* the list_patterns loop of _classify_line: a marker, then white space
IsListLine(text) ==
    LET s == LStrip(text)
        after(m) == m >= 1 /\ Len(s) > m /\ IsSpace(s[m + 1])
    IN  \/ s # <<>> /\ s[1] \in ListBullets /\ after(1)
        \/ s # <<>> /\ s[1] \in ListDashes /\ after(1)
        \/ after(NumMarkerLen(s))
        \/ after(LetterMarkerLen(s))
        \/ after(ParenMarkerLen(s))

\* _classify_line with "math_ratio >= 0.4" where the code has "math_ratio > 0.4"
classify_line_atleast(text, font_size, is_bold, math_chars, total_chars, median) ==
    LET text_stripped == Strip(text)
        text_lower == RStripDots(Lower(text_stripped))
    IN  IF total_chars > 0 /\ 10 * math_chars >= 4 * total_chars THEN "math"
        ELSE IF IsListLine(text_stripped) THEN "list"
        ELSE IF Len(text_stripped) > 100 THEN "text"
        ELSE IF \/ SectionPattern1(text_stripped)
                \/ SectionPattern2(text_stripped)
                \/ SectionPattern3(text_stripped) THEN "heading"
        ELSE IF text_lower \in COMMON_SECTIONS THEN "heading"
        ELSE IF /\ 10 * font_size > 12 * median
                /\ (is_bold \/ Len(text_stripped) < 80) THEN "heading"
        ELSE IF /\ IsUpperStr(text_stripped)
                /\ 3 < Len(text_stripped)
                /\ Len(text_stripped) < 60 THEN "heading"
        ELSE "text"
\* PDFExtractor._classify_line(text, font_size, is_bold, math_ratio, page_num);
\* math_ratio is math_chars / total_chars, median is self.median_font_size
classify_line(text, font_size, is_bold, math_chars, total_chars, median) ==
    LET text_stripped == Strip(text)
        text_lower == RStripDots(Lower(text_stripped))
    IN  IF total_chars > 0 /\ 10 * math_chars > 4 * total_chars THEN "math"
        ELSE IF IsListLine(text_stripped) THEN "list"
        ELSE IF Len(text_stripped) > 100 THEN "text"
        ELSE IF \/ SectionPattern1(text_stripped)
                \/ SectionPattern2(text_stripped)
                \/ SectionPattern3(text_stripped) THEN "heading"
        ELSE IF text_lower \in COMMON_SECTIONS THEN "heading"
        ELSE IF /\ 10 * font_size > 12 * median
                /\ (is_bold \/ Len(text_stripped) < 80) THEN "heading"
        ELSE IF /\ IsUpperStr(text_stripped)
                /\ 3 < Len(text_stripped)
                /\ Len(text_stripped) < 60 THEN "heading"
        ELSE "text"

\* PDFExtractor._determine_heading_level(font_size, text)
determine_heading_level(font_size, text, median) ==
    LET dots == NumGroups(text)
    IN  IF dots > 0 THEN (IF dots + 1 < 6 THEN dots + 1 ELSE 6)
        ELSE IF 10 * font_size > 16 * median THEN 1
        ELSE IF 10 * font_size > 13 * median THEN 2
        ELSE IF 10 * font_size > 11 * median THEN 3
        ELSE 4

\* the replacements table of _clean_text whose keys are single characters
\* (ligatures, minus and dashes, ellipsis, soft hyphen, zero width space, BOM)
CleanTable ==
    [c \in {"U+FB01", "U+FB02", "U+FB00", "U+FB03", "U+FB04", "U+2212", "U+2013",
            "U+2014", "U+2026", "U+00AD", "U+200B", "U+FEFF"} |->
        CASE c = "U+FB01" -> <<"f", "i">>
          [] c = "U+FB02" -> <<"f", "l">>
          [] c = "U+FB00" -> <<"f", "f">>
          [] c = "U+FB03" -> <<"f", "f", "i">>
          [] c = "U+FB04" -> <<"f", "f", "l">>
          [] c \in {"U+2212", "U+2013", "U+2014"} -> <<"-">>
          [] c = "U+2026" -> <<".", ".", ".">>
          [] OTHER -> <<>>]

\* the one key of the replacements tables that is longer than a character: the
\* source text between the two triple quotes of the quote entries, : "'", 
QuoteKey == <<":", " ", "\"", "'", "\"", ",", " ">>

\* PDFExtractor._clean_text(text).  No single-character entry makes or breaks an
\* occurrence of QuoteKey before its turn, and the removals come after it.
clean_text(text) ==
    Strip(DropSpaceBeforePunct(CollapseSpaces(
        ReplaceChars(ReplaceSub(text, QuoteKey, <<"'">>), CleanTable))))

\* the hyphenation loop of _flush_paragraph over the accumulated line texts
RECURSIVE JoinHyphenated(_, _)
JoinHyphenated(texts, text_parts) ==
    IF texts = <<>> THEN text_parts
    ELSE IF text_parts # <<>> /\ EndsWith(text_parts[Len(text_parts)], "-")
         THEN LET last == text_parts[Len(text_parts)]
              IN  JoinHyphenated(Tail(texts),
                      [text_parts EXCEPT ![Len(text_parts)] =
                          SubSeq(last, 1, Len(last) - 1) \o texts[1]])
         ELSE JoinHyphenated(Tail(texts), Append(text_parts, texts[1]))

\* the content _flush_paragraph computes from the accumulated lines
paragraph_content(lines) ==
    clean_text(JoinSpace(JoinHyphenated([i \in 1..Len(lines) |-> lines[i].text], <<>>)))

\* the list marker regex of _add_list_item and what re.sub leaves of the text
ListMarkerLen(s) ==
    IF s # <<>> /\ s[1] \in ListBullets \cup ListDashes THEN 1
    ELSE IF NumMarkerLen(s) > 0 THEN NumMarkerLen(s)
    ELSE IF LetterMarkerLen(s) > 0 THEN LetterMarkerLen(s)
    ELSE ParenMarkerLen(s)

clean_list_marker(text) ==
    LET s == LStrip(text)
        m == ListMarkerLen(s)
    IN  IF m = 0 THEN text ELSE LStrip(From(s, m))

\* ordered = bool(re.match(r'^\s*\d+[.)]', text))
list_ordered(text) == NumMarkerLen(LStrip(text)) > 0


\* the symbol tables (greek, operators) of _text_to_latex, for the symbols of the
\* model's alphabet: char -> cmd + ' '
LatexTable ==
    [c \in {"U+03B1", "U+03B2", "U+2211"} |->
        CASE c = "U+03B1" -> <<"\\","a","l","p","h","a"," ">>
          [] c = "U+03B2" -> <<"\\","b","e","t","a"," ">>
          [] OTHER -> <<"\\","s","u","m"," ">>]

WordChars == AsciiLower \cup AsciiUpper \cup Digits \cup {"_", "U+03B1", "U+03B2", "U+FB01"}

\* re.sub(r'(\w+)/(\w+)', r'\\frac{\1}{\2}', latex)
RECURSIVE FracSub(_)
FracSub(s) ==
    IF ~Has(s, "/") THEN s
    ELSE IF IsWord(s[1])
         THEN LET n == RunLen(s, WordChars)
                  m == IF Len(s) > n /\ s[n + 1] = "/"
                       THEN RunLen(From(s, n + 1), WordChars) ELSE 0
              IN  IF m >= 1
                  THEN <<"\\","f","r","a","c","{">> \o SubSeq(s, 1, n) \o <<"}","{">>
                       \o SubSeq(s, n + 2, n + 1 + m) \o <<"}">>
                       \o FracSub(From(s, n + 1 + m))
                  ELSE SubSeq(s, 1, n) \o FracSub(From(s, n))
         ELSE <<s[1]>> \o FracSub(Tail(s))

\* re.sub(mark + r'(\d+)', mark + r'{\1}', .) followed by
\* re.sub(mark + r'([a-zA-Z])', mark + r'{\1}', .), for mark = '^' or '_':
\* the first leaves a brace after every mark it touched, so the two passes
\* never act on the same mark
RECURSIVE BraceAfter(_, _)
BraceAfter(s, mark) ==
    IF ~Has(s, mark) THEN s
    ELSE IF s[1] = mark
         THEN LET n == RunLen(Tail(s), Digits)
                  k == IF n >= 1 THEN n
                       ELSE IF Len(s) >= 2 /\ s[2] \in AsciiLower \cup AsciiUpper
                            THEN 1 ELSE 0
              IN  IF k >= 1
                  THEN <<mark, "{">> \o SubSeq(s, 2, k + 1) \o <<"}">>
                       \o BraceAfter(From(s, k + 1), mark)
                  ELSE <<mark>> \o BraceAfter(Tail(s), mark)
         ELSE <<s[1]>> \o BraceAfter(Tail(s), mark)

\* _text_to_latex returning its string also when nothing was substituted
text_to_latex_always(text) ==
    IF text = <<>> THEN None
    ELSE Strip(BraceAfter(BraceAfter(FracSub(ReplaceChars(text, LatexTable)),
                                     "^"), "_"))
\* PDFExtractor._text_to_latex(text)
text_to_latex(text) ==
    IF text = <<>> THEN None
    ELSE LET latex == BraceAfter(BraceAfter(FracSub(ReplaceChars(text, LatexTable)),
                                            "^"), "_")
         IN  IF latex # text THEN Strip(latex) ELSE None

\* is_display of _extract_math_block
math_is_display(text) == Len(Strip(text)) > 20 \/ Contains(text, <<"=">>)

\* (Figure|Fig\.?|Table|Scheme), matched with re.IGNORECASE
CaptionLabels ==
    { <<"f","i","g","u","r","e">>, <<"f","i","g",".">>, <<"f","i","g">>,
      <<"t","a","b","l","e">>, <<"s","c","h","e","m","e">> }

\* the labels after which \s*\d matches at the start of text
CaptionMatches(text) ==
    { lab \in CaptionLabels :
        /\ StartsWith(Lower(text), lab)
        /\ LET rest == LStrip(From(text, Len(lab)))
           IN  rest # <<>> /\ IsDigit(rest[1]) }

\* text.split('\n')
RECURSIVE SplitLines(_)
SplitLines(s) ==
    LET n == RunLen(s, {c \in {s[i] : i \in 1..Len(s)} : c # "\n"})
    IN  IF n = Len(s) THEN <<s>>
        ELSE <<SubSeq(s, 1, n)>> \o SplitLines(From(s, n + 1))

\* the loop of _find_figure_caption over the lines below the image
RECURSIVE CaptionLines(_, _)
CaptionLines(lines, caption_lines) ==
    IF lines = <<>> THEN caption_lines
    ELSE LET line == Strip(lines[1])
         IN  IF line # <<>>
             THEN IF EndsWith(line, ".") THEN Append(caption_lines, line)
                  ELSE CaptionLines(Tail(lines), Append(caption_lines, line))
             ELSE IF caption_lines # <<>> THEN caption_lines
                  ELSE CaptionLines(Tail(lines), caption_lines)

\* PDFExtractor._find_figure_caption(page, img_rect); below is what
\* page.get_text("text", clip=search_rect) answers for the region under the image
find_figure_caption(below) ==
    LET text == Strip(below)
    IN  IF CaptionMatches(text) # {}
        THEN LET c == JoinSpace(CaptionLines(SplitLines(text), <<>>))
             IN  SubSeq(c, 1, IF Len(c) < 500 THEN Len(c) ELSE 500)
        ELSE None

\* PDFExtractor._extract_figure_number(caption)
extract_figure_number(caption) ==
    IF CaptionMatches(caption) = {} THEN None
    ELSE LET lab == CHOOSE l \in CaptionMatches(caption) : TRUE
             rest == LStrip(From(caption, Len(lab)))
             n == RunLen(rest, Digits)
             k == IF Len(rest) > n /\ rest[n + 1] \in AsciiLower \cup AsciiUpper
                  THEN n + 1 ELSE n
         IN  SubSeq(rest, 1, k)

\* mime_map.get(ext, "image/png") of _extract_page_images
mime_type_of(ext) ==
    CASE ext = "png" -> "image/png"
      [] ext \in {"jpg", "jpeg"} -> "image/jpeg"
      [] ext = "gif" -> "image/gif"
      [] OTHER -> "image/png"


(***************************************************************************)
(* The document, as PyMuPDF answers for it                                 *)
(*   doc   = [pages, toc, metadata, opens]                                 *)
(*   page  = [rect, blocks, images, pixmap_ok]    (page.get_text("dict",   *)
(*           sort=True)["blocks"], page.get_images(), page.get_pixmap())   *)
(*   block = [type |-> 0, lines] (text) or [type |-> 1, bbox] (image)      *)
(*   line  = [spans, bbox],  span = [text, font, size, flags]              *)
(*           (a line dict may lack "bbox": line["bbox"] raises KeyError)   *)
(*   image = [rects, extract, ext, below, caption_raises]                  *)
(***************************************************************************)
Times == <<"T","i","m","e","s">>
CMMI == <<"C","M","M","I","1","0">>

Span(text, font, size, flags) ==
    [text |-> text, font |-> font, size |-> size, flags |-> flags]

\* a page of standard size whose k-th line lies at the k-th base line
PageRect == [x0 |-> 0, y0 |-> 0, x1 |-> 600, y1 |-> 800]
LineBox(k) == [x0 |-> 50, y0 |-> 80 + 20 * k, x1 |-> 300, y1 |-> 92 + 20 * k]

TextBlocks(lineSpans, box(_)) ==
    IF lineSpans = <<>> THEN <<>>
    ELSE << [type |-> 0,
             lines |-> [k \in 1..Len(lineSpans) |->
                           [spans |-> lineSpans[k], bbox |-> box(k)]]] >>

MkPage(rect, lineSpans, imgs) ==
    [rect |-> rect, blocks |-> TextBlocks(lineSpans, LineBox), images |-> imgs,
     pixmap_ok |-> TRUE]

\* opens: fitz.open(file_path) answers with the document (it raises otherwise)
MkDoc(pages, toc) ==
    [pages |-> pages, toc |-> toc, metadata |-> None, opens |-> TRUE]

\* the lines of a page in reading order: those of its text blocks
RECURSIVE BlockLines(_)
BlockLines(bs) ==
    IF bs = <<>> THEN <<>>
    ELSE (IF bs[1].type = 0 THEN bs[1].lines ELSE <<>>) \o BlockLines(Tail(bs))

PageLines(page) == BlockLines(page.blocks)

\* all sequences over S of length at most n
SeqsUpTo(S, n) == UNION {[1..k -> S] : k \in 0..n}

\* the ways to cut a sequence of n items into np consecutive pages
Cuts(n, np) ==
    { c \in [0..np -> 0..n] :
        /\ c[0] = 0
        /\ c[np] = n
        /\ \A p \in 1..np : c[p - 1] <= c[p] }

(***************************************************************************)
(* class PDFExtractor                                                      *)
(***************************************************************************)
NumIds == 2

\* generate_block_id(), generate_image_id(): the first 12 hex digits of a fresh
\* uuid4, a random draw; the values a call may return
generate_block_id == {<<"blk", n>> : n \in 1..NumIds}
generate_image_id == {<<"img", n>> : n \in 1..NumIds}

\* d[k] = v on a dict
DictPut(d, k, v) == [x \in DOMAIN d \cup {k} |-> IF x = k THEN v ELSE d[x]]

MinOf(S) == CHOOSE x \in S : \A y \in S : x <= y
MaxOf(S) == CHOOSE x \in S : \A y \in S : x >= y

SourceLocation(page, bbox, char_start, char_end) ==
    [page |-> page, bbox |-> bbox, char_start |-> char_start, char_end |-> char_end]

\* the part of the extractor the block emitters write
Emitter == [blocks |-> blocks, images |-> images,
            plain_text_parts |-> plain_text_parts, char_offset |-> char_offset]


flush_paragraph_tight(st, lines, pn, page_rect, id) ==
    IF lines = <<>> THEN st
    ELSE LET content == paragraph_content(lines)
             idx == 1..Len(lines)
             combined_rect ==
                 [x0 |-> MinOf({lines[i].rect.x0 : i \in idx}),
                  y0 |-> MinOf({lines[i].rect.y0 : i \in idx}),
                  x1 |-> MaxOf({lines[i].rect.x1 : i \in idx}),
                  y1 |-> MaxOf({lines[i].rect.y1 : i \in idx})]
             source == SourceLocation(pn, from_rect(combined_rect, page_rect),
                                      st.char_offset, st.char_offset + Len(content))
         IN  IF Strip(content) = <<>> THEN st
             ELSE [st EXCEPT
                     !.blocks = Append(@, [id |-> id, type |-> "text",
                                           source |-> source, content |-> content]),
                     !.plain_text_parts = Append(@, content),
                     !.char_offset = @ + Len(content) + 1]
\* PDFExtractor._flush_paragraph(lines, page_num, page_rect); id is the value
\* generate_block_id() returns if it is called
flush_paragraph(st, lines, pn, page_rect, id) ==
    IF lines = <<>> THEN st
    ELSE LET content == paragraph_content(lines)
             idx == 1..Len(lines)
             combined_rect ==
                 [x0 |-> MinOf({lines[i].rect.x0 : i \in idx}),
                  y0 |-> MinOf({lines[i].rect.y0 : i \in idx}),
                  x1 |-> MaxOf({lines[i].rect.x1 : i \in idx}),
                  y1 |-> MaxOf({lines[i].rect.y1 : i \in idx})]
             source == SourceLocation(pn, from_rect(combined_rect, page_rect),
                                      st.char_offset, st.char_offset + Len(content))
         IN  IF Strip(content) = <<>> THEN st
             ELSE [st EXCEPT
                     !.blocks = Append(@, [id |-> id, type |-> "text",
                                           source |-> source, content |-> content]),
                     !.plain_text_parts = Append(@, content),
                     !.char_offset = @ + Len(content) + 2]

\* the heading branch of _process_text_block, after the flush
emit_heading(st, line_text, line_rect, max_font_size, pn, page_rect, median, id) ==
    LET level == determine_heading_level(max_font_size, line_text, median)
        source == SourceLocation(pn, from_rect(line_rect, page_rect),
                                 st.char_offset, st.char_offset + Len(line_text))
    IN  [st EXCEPT
            !.blocks = Append(@, [id |-> id, type |-> "heading", source |-> source,
                                  level |-> level, content |-> line_text]),
            !.plain_text_parts = Append(@, line_text),
            !.char_offset = @ + Len(line_text) + 2]

\* PDFExtractor._extract_math_block(text, rect, page, page_num, page_rect);
\* pixmap_ok: page.get_pixmap() and pix.tobytes() do not raise
extract_math_block(st, text, rect, pixmap_ok, pn, page_rect, imgid, id) ==
    LET latex == text_to_latex(text)
        image_id == IF pixmap_ok THEN imgid ELSE None
        bbox == from_rect(rect, page_rect)
        stored == IF pixmap_ok
                  THEN DictPut(st.images, imgid,
                           [id |-> imgid, data |-> "pixmap", mime_type |-> "image/png",
                            page |-> pn, bbox |-> bbox])
                  ELSE st.images
        source == SourceLocation(pn, bbox, st.char_offset, st.char_offset + Len(text))
    IN  [st EXCEPT
            !.images = stored,
            !.blocks = Append(@, [id |-> id, type |-> "math", source |-> source,
                                  latex |-> latex, image_id |-> image_id,
                                  alt_text |-> text, display |-> math_is_display(text)]),
            !.plain_text_parts = Append(@, text),
            !.char_offset = @ + Len(text) + 2]


\* _add_list_item stretching the source of the list it merges into
add_list_item_stretching(st, text, rect, pn, page_rect, id) ==
    LET cleaned == clean_list_marker(text)
        ordered == list_ordered(text)
        source == SourceLocation(pn, from_rect(rect, page_rect),
                                 st.char_offset, st.char_offset + Len(text))
        n == Len(st.blocks)
    IN  IF n > 0 /\ st.blocks[n].type = "list" /\ st.blocks[n].ordered = ordered
        THEN [st EXCEPT
                !.blocks[n].items = Append(@, cleaned),
                !.blocks[n].source.char_end = source.char_end,
                !.plain_text_parts = Append(@, cleaned),
                !.char_offset = @ + Len(cleaned) + 2]
        ELSE [st EXCEPT
                !.blocks = Append(@, [id |-> id, type |-> "list", source |-> source,
                                      items |-> <<cleaned>>, ordered |-> ordered]),
                !.plain_text_parts = Append(@, cleaned),
                !.char_offset = @ + Len(cleaned) + 2]
\* PDFExtractor._add_list_item(text, rect, page_num, page_rect)
add_list_item(st, text, rect, pn, page_rect, id) ==
    LET cleaned == clean_list_marker(text)
        ordered == list_ordered(text)
        source == SourceLocation(pn, from_rect(rect, page_rect),
                                 st.char_offset, st.char_offset + Len(text))
        n == Len(st.blocks)
    IN  IF n > 0 /\ st.blocks[n].type = "list" /\ st.blocks[n].ordered = ordered
        THEN [st EXCEPT
                !.blocks[n].items = Append(@, cleaned),
                !.plain_text_parts = Append(@, cleaned),
                !.char_offset = @ + Len(cleaned) + 2]
        ELSE [st EXCEPT
                !.blocks = Append(@, [id |-> id, type |-> "list", source |-> source,
                                      items |-> <<cleaned>>, ordered |-> ordered]),
                !.plain_text_parts = Append(@, cleaned),
                !.char_offset = @ + Len(cleaned) + 2]

MinImageSize == 50

\* the loop of PDFExtractor._extract_page_images(page, page_num) from image k on;
\* ids[k] = [img, blk]: what generate_image_id() and generate_block_id() return
\* for image k.  A `continue` leaves st as it is at that point.
RECURSIVE extract_page_images(_, _, _, _, _, _)
extract_page_images(st, imgs, k, pn, page_rect, ids) ==
    IF k > Len(imgs) THEN st
    ELSE LET img == imgs[k]
             img_rect == img.rects[1]
             bbox == from_rect(img_rect, page_rect)
             stored == [st EXCEPT !.images =
                           DictPut(@, ids[k].img,
                               [id |-> ids[k].img, data |-> "image",
                                mime_type |-> mime_type_of(img.ext),
                                page |-> pn, bbox |-> bbox])]
             caption == find_figure_caption(img.below)
             figure_number == IF caption # None
                              THEN extract_figure_number(caption) ELSE None
             emitted == [stored EXCEPT !.blocks =
                            Append(@, [id |-> ids[k].blk, type |-> "figure",
                                       source |-> SourceLocation(pn, bbox, None, None),
                                       image_id |-> ids[k].img, caption |-> caption,
                                       figure_number |-> figure_number])]
             next ==
                 IF img.rects = <<>> THEN st
                 ELSE IF RectWidth(img_rect) < MinImageSize
                         \/ RectHeight(img_rect) < MinImageSize THEN st
                 ELSE IF img.extract # "ok" THEN st
                 ELSE IF img.caption_raises THEN stored
                 ELSE emitted
         IN  extract_page_images(next, imgs, k + 1, pn, page_rect, ids)

\* PDFExtractor._collect_font_stats(): sizes[len(sizes) // 2] of the sorted sizes
\* of all spans with a positive size; 12.0 while there is none
RECURSIVE LineSizes(_)
LineSizes(lines) ==
    IF lines = <<>> THEN <<>>
    ELSE [i \in 1..Len(lines[1].spans) |-> lines[1].spans[i].size]
         \o LineSizes(Tail(lines))

RECURSIVE PageSizes(_)
PageSizes(pages) ==
    IF pages = <<>> THEN <<>>
    ELSE LineSizes(PageLines(pages[1])) \o PageSizes(Tail(pages))

\* _collect_font_stats reading the first page only
collect_font_stats_firstpage(d) ==
    LET all == IF d.pages = <<>> THEN <<>> ELSE LineSizes(PageLines(d.pages[1]))
        pos == {i \in 1..Len(all) : all[i] > 0}
        mid == Cardinality(pos) \div 2
        below(v) == Cardinality({i \in pos : all[i] < v})
        upto(v) == Cardinality({i \in pos : all[i] <= v})
    IN  IF pos = {} THEN 12
        ELSE CHOOSE v \in {all[i] : i \in pos} : below(v) <= mid /\ mid < upto(v)
collect_font_stats(d) ==
    LET all == PageSizes(d.pages)
        pos == {i \in 1..Len(all) : all[i] > 0}
        mid == Cardinality(pos) \div 2
        below(v) == Cardinality({i \in pos : all[i] < v})
        upto(v) == Cardinality({i \in pos : all[i] <= v})
    IN  IF pos = {} THEN 12
        ELSE CHOOSE v \in {all[i] : i \in pos} : below(v) <= mid /\ mid < upto(v)

\* PDFExtractor._build_outline()
RECURSIVE build_outline(_)
build_outline(bs) ==
    IF bs = <<>> THEN <<>>
    ELSE (IF bs[1].type = "heading"
          THEN << [title |-> bs[1].content, level |-> bs[1].level,
                   block_id |-> bs[1].id, page |-> bs[1].source.page] >>
          ELSE <<>>) \o build_outline(Tail(bs))

\* PDFExtractor._find_heading_block(title, page)
find_heading_block(bs, title, page) ==
    LET title_lower == Strip(Lower(title))
        hits == { i \in 1..Len(bs) :
                    /\ bs[i].type = "heading"
                    /\ bs[i].source.page = page
                    /\ \/ Strip(Lower(bs[i].content)) = title_lower
                       \/ Contains(Lower(bs[i].content), title_lower) }
        onpage == { i \in 1..Len(bs) : bs[i].source.page = page }
    IN  IF hits # {} THEN bs[MinOf(hits)].id
        ELSE IF onpage # {} THEN bs[MinOf(onpage)].id
        ELSE None

\* _extract_toc keeping the entries it mapped before the one that raises
extract_toc_partial(toc, bs, old_outline) ==
    IF toc = <<>> \/ Len(toc) <= Len(old_outline) THEN old_outline
    ELSE LET bad == {i \in 1..Len(toc) : "dest" \in DOMAIN toc[i]}
             good == IF bad = {} THEN Len(toc) ELSE MinOf(bad) - 1
         IN  [i \in 1..good |->
                LET block_id == find_heading_block(bs, toc[i].title, toc[i].page - 1)
                IN  [title |-> Strip(toc[i].title), level |-> toc[i].level,
                     block_id |-> IF block_id = None THEN <<>> ELSE block_id,
                     page |-> toc[i].page - 1]]

\* PDFExtractor._extract_toc() from the test of the TOC's length on: the
\* outline it leaves.  On an entry of four items "for level, title, page in toc"
\* raises; new_outline is dropped and the except clause leaves self.outline as
\* it was.
extract_toc(toc, bs, old_outline) ==
    IF toc = <<>> \/ Len(toc) <= Len(old_outline) THEN old_outline
    ELSE IF \E i \in 1..Len(toc) : "dest" \in DOMAIN toc[i] THEN old_outline
    ELSE [i \in 1..Len(toc) |->
            LET block_id == find_heading_block(bs, toc[i].title, toc[i].page - 1)
            IN  [title |-> Strip(toc[i].title), level |-> toc[i].level,
                 block_id |-> IF block_id = None THEN <<>> ELSE block_id,
                 page |-> toc[i].page - 1]]

\* PDFExtractor._extract_metadata()
extract_metadata(d) ==
    IF d.metadata = None THEN <<>>
    ELSE [title |-> d.metadata.title, author |-> d.metadata.author,
          subject |-> d.metadata.subject, keywords |-> d.metadata.keywords,
          creator |-> d.metadata.creator]


(***************************************************************************)
(* The documents of the check                                              *)
(***************************************************************************)
MaxLines == 3
MaxPages == 2
MaxImages == 2
MaxToc == 2

Body(text) == <<Span(text, Times, 10, {})>>

L_infor == Body(<<"i","n","f","o","r","-">>)
L_mation == Body(<<"m","a","t","i","o","n"," ","t","h","e","o","r","y">>)
L_methods == Body(<<"M","e","t","h","o","d","s">>)
L_item == Body(<<"1","."," ","a">>)
L_bullet == Body(<<"-"," ","b">>)
L_math == Body(<<"U+03B1","=","U+03B2">>)
L_zwsp == Body(<<"U+200B">>)
L_done == Body(<<"D","o","n","e",".">>)

LineCatalogue == {L_infor, L_mation, L_methods, L_item, L_bullet, L_math, L_zwsp}

\* pages of text lines only: every sequence of catalogue lines, cut into pages
LinePages(ls, c, np) ==
    [p \in 1..np |-> MkPage(PageRect, SubSeq(ls, c[p - 1] + 1, c[p]), <<>>)]

DocsLines(max_lines, max_pages) ==
    UNION { { MkDoc(LinePages(ls, c, np), <<>>) : c \in Cuts(Len(ls), np) } :
            ls \in SeqsUpTo(LineCatalogue, max_lines), np \in 1..max_pages }

\* images: inside the page, across its right edge, too small, without a
\* rectangle, one whose extraction raises, one whose caption search raises
Image(rects, extract, ext, below, caption_raises) ==
    [rects |-> rects, extract |-> extract, ext |-> ext, below |-> below,
     caption_raises |-> caption_raises]

Rect(x0, y0, x1, y1) == [x0 |-> x0, y0 |-> y0, x1 |-> x1, y1 |-> y1]

I_inside ==
    Image(<<Rect(100, 300, 300, 500)>>, "ok", "png",
          <<"F","i","g","u","r","e"," ","1",":"," ","P","l","o","t">>, FALSE)
I_across ==
    Image(<<Rect(500, 300, 700, 500)>>, "ok", "jpeg",
          <<"T","a","b","l","e"," ","o","f"," ","r","e","s","u","l","t","s">>, FALSE)
I_small == Image(<<Rect(100, 300, 140, 340)>>, "ok", "png", <<>>, FALSE)
I_norect == Image(<<>>, "ok", "png", <<>>, FALSE)
I_raises == Image(<<Rect(100, 300, 300, 500)>>, "raise", "png", <<>>, FALSE)
I_nocaption == Image(<<Rect(100, 300, 300, 500)>>, "ok", "gif", <<>>, TRUE)

ImageCatalogue == {I_inside, I_across, I_small, I_norect, I_raises, I_nocaption}

\* a page at the origin, and one whose rectangle starts at (100, 100)
PageRects == {PageRect, Rect(100, 100, 700, 900)}

DocsFig(max_images) ==
    { MkDoc(<<MkPage(r, ls, imgs)>>, <<>>) :
        r \in PageRects,
        ls \in {<<>>, <<L_done>>, <<L_methods, L_done>>},
        imgs \in SeqsUpTo(ImageCatalogue, max_images) \ {<<>>} }

\* the table of contents: doc.get_toc() entries (level, title, 1-based page)
TocEntry(level, title, page) == [level |-> level, title |-> title, page |-> page]

TocCatalogue ==
    { TocEntry(1, <<"M","e","t","h","o","d","s">>, 1),
      TocEntry(1, <<"I","n","t","r","o">>, 2),
      TocEntry(2, <<"D","a","t","a"," ">>, 1) }

DocsToc(max_toc) ==
    { MkDoc(<<MkPage(PageRect, ls1, <<>>), MkPage(PageRect, ls2, <<>>)>>, toc) :
        ls1 \in {<<L_methods, L_done>>, <<L_done>>},
        ls2 \in {<<>>, <<L_methods>>, <<L_done>>},
        toc \in SeqsUpTo(TocCatalogue, max_toc) }


(***************************************************************************)
(* PDFExtractor.extract(), one step per page part                          *)
(***************************************************************************)
ServiceIdle ==
    /\ s_page = 0
    /\ s_block = 0
    /\ s_blocks = <<>>
    /\ s_paragraph = <<>>
    /\ in_references = FALSE
    /\ reference_items = <<>>
    /\ s_result = <<>>

\* PDFExtractor.__init__
Constructed ==
    /\ self_doc = None
    /\ page_count = 0
    /\ page_num = 0
    /\ line_idx = 0
    /\ current_paragraph = <<>>
    /\ blocks = <<>>
    /\ images = <<>>
    /\ outline = <<>>
    /\ plain_text_parts = <<>>
    /\ char_offset = 0
    /\ median_font_size = 12
    /\ result = <<>>

\* documents of two pages whose lines are set in different sizes, size 0 too:
\* at most max_sized lines on the first page, at most one on the second
Sized(text, size) == <<Span(text, Times, size, {})>>

SizedCatalogue ==
    { Sized(<<"D","o","n","e",".">>, 0), Sized(<<"D","o","n","e",".">>, 10),
      Sized(<<"R","e","s","u","l","t","s">>, 20) }

MaxSized == 2

DocsSizes(max_sized) ==
    { MkDoc(<<MkPage(PageRect, ls1, <<>>), MkPage(PageRect, ls2, <<>>)>>, <<>>) :
        ls1 \in SeqsUpTo(SizedCatalogue, max_sized),
        ls2 \in {<<>>} \cup {<<l>> : l \in SizedCatalogue} }
\* one page of mathematics: short lines with and without "=" and a summation
\* sign, between lines of text
L_sum == Body(<<"U+03B1","U+03B2","U+2211">>)
L_alpha == Body(<<"U+03B1","U+03B2">>)

DocsMath ==
    { MkDoc(<<MkPage(PageRect, ls, <<>>)>>, <<>>) :
        ls \in SeqsUpTo({L_sum, L_alpha, L_math, L_done, L_infor}, MaxLines) }

\* one-page documents that mix headings, paragraphs, lists, math and images
MixedLines ==
    { <<L_methods, L_done, L_math>>, <<L_done, L_alpha, L_done>>,
      <<L_item, L_item, L_bullet>>, <<L_infor, L_mation, L_sum>> }

MixedImages == { <<>>, <<I_inside, I_nocaption>> }

DocsMixed ==
    { MkDoc(<<MkPage(PageRect, ls, imgs)>>, <<>>) :
        ls \in MixedLines, imgs \in MixedImages }

\* an entry of four items, which the loop of _extract_toc cannot unpack
E_malformed ==
    [level |-> 1, title |-> <<"D","a","t","a">>, page |-> 1, dest |-> <<>>]

\* a document whose get_toc() raises
MkDocNoToc(pages) ==
    [pages |-> pages, toc |-> <<>>, metadata |-> None, opens |-> TRUE,
     get_toc |-> "raise"]

\* the documents whose TOC raises: at get_toc(), or at an entry of the list
DocsTocRaises(max_toc) ==
    { MkDoc(<<MkPage(PageRect, ls, imgs)>>, toc) :
        ls \in {<<L_methods, L_done>>, <<L_done>>},
        imgs \in {<<>>, <<I_inside>>},
        toc \in { s \in SeqsUpTo(TocCatalogue \cup {E_malformed}, max_toc) :
                    \E i \in 1..Len(s) : "dest" \in DOMAIN s[i] } }
    \cup { MkDocNoToc(<<MkPage(PageRect, ls, <<>>)>>) :
             ls \in {<<L_methods, L_done>>, <<L_done>>} }
\* a source fitz.open() raises on, and a document of no pages
Unopenable == [MkDoc(<<>>, <<>>) EXCEPT !.opens = FALSE]
EmptyDocument == MkDoc(<<>>, <<>>)

\* the page of lineSpans whose k-th line dict has no "bbox"
MkBrokenPage(rect, lineSpans, k) ==
    LET p == MkPage(rect, lineSpans, <<>>)
    IN  [p EXCEPT !.blocks[1].lines[k] = [spans |-> @.spans]]

\* documents on which extract() cannot run to its end: one that does not
\* open, and documents of two pages, with or without an image and a table of
\* contents, with one line that lacks its "bbox"; and the document of no
\* pages, on which it can
DocsBroken ==
    {Unopenable, EmptyDocument}
    \cup { MkDoc(<<MkPage(PageRect, <<L_methods, L_done>>, imgs),
                   MkBrokenPage(PageRect, ls, k)>>, <<>>) :
             imgs \in {<<>>, <<I_across>>},
             ls \in {<<L_done, L_done>>, <<L_methods, L_done>>}, k \in 1..2 }
    \cup { MkDoc(<<MkBrokenPage(PageRect, <<L_item, L_done>>, k),
                   MkPage(PageRect, <<L_methods, L_done>>, <<>>)>>, toc) :
             k \in 1..2, toc \in SeqsUpTo(TocCatalogue, 1) }
Init ==
    /\ doc \in DocsLines(MaxLines, MaxPages) \cup DocsFig(MaxImages)
                \cup DocsToc(MaxToc) \cup DocsBroken \cup DocsMath
    /\ pc = "open"
    /\ run = 1
    /\ first = <<>>
    /\ Constructed
    /\ ServiceIdle

CurPage == doc.pages[page_num + 1]

\* fitz.open(file_path); page_count = len(self.doc)
Open ==
    /\ pc = "open"
    /\ doc.opens
    /\ self_doc' = "open"
    /\ page_count' = Len(doc.pages)
    /\ pc' = "stats"
    /\ UNCHANGED <<doc, run, first, page_num, line_idx, current_paragraph, blocks,
                   images, outline, plain_text_parts, char_offset, median_font_size,
                   result, svc_vars>>

CollectFontStats ==
    /\ pc = "stats"
    /\ median_font_size' = collect_font_stats(doc)
    /\ pc' = "page"
    /\ UNCHANGED <<doc, run, first, page_count, page_num, line_idx, current_paragraph,
                   blocks, images, outline, plain_text_parts, char_offset, result,
                   svc_vars,
                   self_doc>>

\* _extract_page(page_num) up to its loop over the blocks: the images first
BeginPage ==
    /\ pc = "page"
    /\ page_num < page_count
    /\ \E ids \in [1..Len(CurPage.images) ->
                     [img : generate_image_id, blk : generate_block_id]] :
          LET st == extract_page_images(Emitter, CurPage.images, 1, page_num,
                                        CurPage.rect, ids)
          IN  /\ blocks' = st.blocks
              /\ images' = st.images
    /\ current_paragraph' = <<>>
    /\ line_idx' = 0
    /\ pc' = "lines"
    /\ UNCHANGED <<doc, run, first, page_count, page_num, outline, plain_text_parts,
                   char_offset, median_font_size, result, svc_vars,
                   self_doc>>

\* the branch of _process_text_block for a line whose signals are sig and whose
\* class is content_type; emits: the line makes a block of its own
ProcessLineAs(line, sig, content_type, emits) ==
    \E fid \in IF emits /\ current_paragraph # <<>>
               THEN generate_block_id ELSE {None},
       bid \in IF emits THEN generate_block_id ELSE {None},
       iid \in IF emits /\ content_type = "math"
               THEN generate_image_id ELSE {None} :
       LET flushed == flush_paragraph(Emitter, current_paragraph, page_num,
                                      CurPage.rect, fid)
           st == CASE ~emits -> Emitter
                   [] content_type = "heading" ->
                        emit_heading(flushed, sig.line_text, line.bbox,
                                     sig.max_font_size, page_num, CurPage.rect,
                                     median_font_size, bid)
                   [] content_type = "math" ->
                        extract_math_block(flushed, sig.line_text, line.bbox,
                                           CurPage.pixmap_ok, page_num,
                                           CurPage.rect, iid, bid)
                   [] OTHER ->
                        add_list_item(flushed, sig.line_text, line.bbox,
                                      page_num, CurPage.rect, bid)
       IN  /\ blocks' = st.blocks
           /\ images' = st.images
           /\ plain_text_parts' = st.plain_text_parts
           /\ char_offset' = st.char_offset
           /\ current_paragraph' =
                 IF sig.line_text = <<>> THEN current_paragraph
                 ELSE IF content_type = "text"
                 THEN Append(current_paragraph,
                             [text |-> sig.line_text, rect |-> line.bbox,
                              page |-> page_num])
                 ELSE <<>>

\* one turn of the loop of _process_text_block over the lines of the page
ProcessLine ==
    /\ pc = "lines"
    /\ line_idx < Len(PageLines(CurPage))
    /\ "bbox" \in DOMAIN PageLines(CurPage)[line_idx + 1]
    /\ LET line == PageLines(CurPage)[line_idx + 1]
           sig == LineSignals(line)
           content_type == classify_line(sig.line_text, sig.max_font_size, sig.is_bold,
                                         sig.math_chars, sig.total_chars,
                                         median_font_size)
           emits == sig.line_text # <<>> /\ content_type # "text"
       IN  ProcessLineAs(line, sig, content_type, emits)
    /\ line_idx' = line_idx + 1
    /\ UNCHANGED <<doc, pc, run, first, page_count, page_num, outline,
                   median_font_size, result, svc_vars,
                   self_doc>>

\* the end of _extract_page(page_num): flush the remaining paragraph
EndPage ==
    /\ pc = "lines"
    /\ line_idx = Len(PageLines(CurPage))
    /\ \E fid \in IF current_paragraph # <<>> THEN generate_block_id ELSE {None} :
          LET st == flush_paragraph(Emitter, current_paragraph, page_num,
                                    CurPage.rect, fid)
          IN  /\ blocks' = st.blocks
              /\ plain_text_parts' = st.plain_text_parts
              /\ char_offset' = st.char_offset
    /\ current_paragraph' = <<>>
    /\ page_num' = page_num + 1
    /\ pc' = "page"
    /\ UNCHANGED <<doc, run, first, page_count, line_idx, images, outline,
                   median_font_size, result, svc_vars,
                   self_doc>>

BuildOutline ==
    /\ pc = "page"
    /\ page_num = page_count
    /\ outline' = build_outline(blocks)
    /\ pc' = "toc"
    /\ UNCHANGED <<doc, run, first, page_count, page_num, line_idx, current_paragraph,
                   blocks, images, plain_text_parts, char_offset, median_font_size,
                   result, svc_vars,
                   self_doc>>

ExtractToc ==
    /\ pc = "toc"
    /\ outline' = IF "get_toc" \in DOMAIN doc THEN outline
                  ELSE extract_toc(doc.toc, blocks, outline)
    /\ pc' = "finish"
    /\ UNCHANGED <<doc, run, first, page_count, page_num, line_idx, current_paragraph,
                   blocks, images, plain_text_parts, char_offset, median_font_size,
                   result, svc_vars,
                   self_doc>>

\* the ExtractionResult extract() returns
ExtractionResult ==
    [blocks |-> blocks,
     outline |-> outline,
     images |-> [k \in DOMAIN images |->
                   [id |-> images[k].id, page |-> images[k].page,
                    mime_type |-> images[k].mime_type, bbox |-> images[k].bbox]],
     metadata |-> extract_metadata(doc),
     plain_text |-> JoinBlankLine(plain_text_parts),
     page_count |-> page_count]

Finish ==
    /\ pc = "finish"
    /\ result' = ExtractionResult
    /\ self_doc' = "closed"
    /\ pc' = "done"
    /\ UNCHANGED <<doc, run, first, page_count, page_num, line_idx, current_paragraph,
                   blocks, images, outline, plain_text_parts, char_offset,
                   median_font_size, svc_vars>>

\* an except branch that returns what has been built so far
PartialResult ==
    [blocks |-> blocks, outline |-> outline, images |-> images, metadata |-> <<>>,
     plain_text |-> JoinBlankLine(plain_text_parts), page_count |-> page_count]
\* what extract() returns from its "except Exception" branch
FailedResult ==
    [blocks |-> <<>>, outline |-> <<>>, images |-> <<>>, metadata |-> <<>>,
     plain_text |-> <<>>, page_count |-> 0]

\* the statement extract() is at raises: fitz.open(file_path) on a source that
\* does not open, fitz.Rect(line["bbox"]) on a line without "bbox"
Raises ==
    \/ pc = "open" /\ ~doc.opens
    \/ /\ pc = "lines"
       /\ line_idx < Len(PageLines(CurPage))
       /\ "bbox" \notin DOMAIN PageLines(CurPage)[line_idx + 1]

\* "if self.doc": a fitz.Document has __len__, so a handle is true when the
\* document has pages
Truthy == self_doc # None /\ Len(doc.pages) > 0

\* the "except Exception" branch of extract()
ExtractFails ==
    /\ Raises
    /\ result' = FailedResult
    /\ self_doc' = IF Truthy THEN "closed" ELSE self_doc
    /\ pc' = "done"
    /\ UNCHANGED <<doc, run, first, page_count, page_num, line_idx, current_paragraph,
                   blocks, images, outline, plain_text_parts, char_offset,
                   median_font_size, svc_vars>>
Next ==
    \/ Open
    \/ CollectFontStats
    \/ BeginPage
    \/ ProcessLine
    \/ EndPage
    \/ BuildOutline
    \/ ExtractToc
    \/ Finish
    \/ ExtractFails

Spec == Init /\ [][Next]_vars


\* extract() on the documents set in several sizes, on the broken ones, on the
\* mixed ones and on those whose TOC raises
InitStats ==
    /\ doc \in DocsSizes(MaxSized) \cup DocsBroken \cup DocsMixed
                \cup DocsTocRaises(MaxToc)
    /\ pc = "open"
    /\ run = 1
    /\ first = <<>>
    /\ Constructed
    /\ ServiceIdle

SpecStats == InitStats /\ [][Next]_vars


(***************************************************************************)
(* papers/services.py                                                      *)
(***************************************************************************)
\* MATH_CHAR_RANGES, MATH_FONTS, is_math_char, is_math_font of services.py
svc_MATH_CHAR_RANGES ==
    { <<880, 1023>>, <<8704, 8959>>, <<8448, 8527>>, <<8592, 8703>>,
      <<10176, 10223>>, <<10624, 10751>>, <<10752, 11007>>, <<119808, 120831>> }

svc_MATH_FONTS ==
    { <<"c","m","m","i">>, <<"c","m","s","y">>, <<"c","m","e","x">>,
      <<"m","s","a","m">>, <<"m","s","b","m">>,
      <<"s","y","m","b","o","l">>, <<"m","t"," ","e","x","t","r","a">>,
      <<"s","t","i","x">>, <<"c","a","m","b","r","i","a"," ","m","a","t","h">>,
      <<"a","s","a","n","a">>,
      <<"l","a","t","i","n","m","o","d","e","r","n">>, <<"e","u","l","e","r">> }

svc_is_math_char(c) ==
    /\ c \in DOMAIN CodePoint
    /\ \E r \in svc_MATH_CHAR_RANGES : r[1] <= CodePoint[c] /\ CodePoint[c] <= r[2]

svc_ContainsMathFont(font_lower) ==
    \E mf \in svc_MATH_FONTS : Contains(font_lower, mf)

svc_is_math_font(font) == font # <<>> /\ svc_ContainsMathFont(Lower(font))

\* common_sections of detect_heading
svc_common_sections ==
    { <<"a","b","s","t","r","a","c","t">>,
      <<"i","n","t","r","o","d","u","c","t","i","o","n">>,
      <<"b","a","c","k","g","r","o","u","n","d">>,
      <<"r","e","l","a","t","e","d"," ","w","o","r","k">>,
      <<"m","e","t","h","o","d","s">>,
      <<"m","e","t","h","o","d","o","l","o","g","y">>,
      <<"m","a","t","e","r","i","a","l","s"," ","a","n","d"," ","m","e","t","h","o","d","s">>,
      <<"r","e","s","u","l","t","s">>,
      <<"d","i","s","c","u","s","s","i","o","n">>,
      <<"c","o","n","c","l","u","s","i","o","n">>,
      <<"c","o","n","c","l","u","s","i","o","n","s">>,
      <<"a","c","k","n","o","w","l","e","d","g","m","e","n","t","s">>,
      <<"a","c","k","n","o","w","l","e","d","g","e","m","e","n","t","s">>,
      <<"r","e","f","e","r","e","n","c","e","s">>,
      <<"b","i","b","l","i","o","g","r","a","p","h","y">>,
      <<"a","p","p","e","n","d","i","x">>,
      <<"s","u","p","p","l","e","m","e","n","t","a","r","y">> }

\* re.match(r'^(\d+\.(?:\d+\.)*)\s*(.+)$', s): the number of dots of group 1,
\* 0 when there is no match.  Group 1 is greedy; it gives back its last
\* "digits-dot" when nothing would be left for (.+).
svc_numbered_level(s) ==
    LET g == NumGroups(s)
    IN  IF g = 0 THEN 0
        ELSE IF Len(s) > NumPrefixLen(s) THEN g
        ELSE g - 1

\* detect_heading without its "Too long for a heading" return
detect_heading_unbounded(text, font_size, flags) ==
    LET text_stripped == Strip(text)
        text_lower == Lower(text_stripped)
        level == svc_numbered_level(text_stripped)
        is_bold == 16 \in flags
    IN  IF level > 0 THEN <<TRUE, IF level < 4 THEN level ELSE 4>>
        ELSE IF \E sec \in svc_common_sections : StartsWith(text_lower, sec)
             THEN <<TRUE, 1>>
        ELSE IF is_bold /\ font_size >= 11 /\ Len(text_stripped) < 60
             THEN <<TRUE, IF font_size >= 14 THEN 1
                          ELSE IF font_size >= 12 THEN 2 ELSE 3>>
        ELSE IF /\ IsUpperStr(text_stripped)
                /\ 3 < Len(text_stripped)
                /\ Len(text_stripped) < 50 THEN <<TRUE, 1>>
        ELSE <<FALSE, 0>>
\* detect_heading(text, font_size, flags, page_num): <<is_heading, level>>
detect_heading(text, font_size, flags) ==
    LET text_stripped == Strip(text)
        text_lower == Lower(text_stripped)
        level == svc_numbered_level(text_stripped)
        is_bold == 16 \in flags
    IN  IF Len(text_stripped) > 100 THEN <<FALSE, 0>>
        ELSE IF level > 0 THEN <<TRUE, IF level < 4 THEN level ELSE 4>>
        ELSE IF \E sec \in svc_common_sections : StartsWith(text_lower, sec)
             THEN <<TRUE, 1>>
        ELSE IF is_bold /\ font_size >= 11 /\ Len(text_stripped) < 60
             THEN <<TRUE, IF font_size >= 14 THEN 1
                          ELSE IF font_size >= 12 THEN 2 ELSE 3>>
        ELSE IF /\ IsUpperStr(text_stripped)
                /\ 3 < Len(text_stripped)
                /\ Len(text_stripped) < 50 THEN <<TRUE, 1>>
        ELSE <<FALSE, 0>>

\* the substitutions of try_convert_to_latex for the characters of the alphabet
svc_LatexTable ==
    [c \in {"U+03B1", "U+03B2", "U+2211"} |->
        CASE c = "U+03B1" -> <<"\\","a","l","p","h","a">>
          [] c = "U+03B2" -> <<"\\","b","e","t","a">>
          [] OTHER -> <<"\\","s","u","m">>]

\* re.sub(r'\^(\d+)', r'^{\1}', latex)
RECURSIVE svc_Superscripts(_)
svc_Superscripts(s) ==
    IF ~Has(s, "^") THEN s
    ELSE IF s[1] = "^" /\ RunLen(Tail(s), Digits) >= 1
         THEN <<"^", "{">> \o SubSeq(s, 2, RunLen(Tail(s), Digits) + 1) \o <<"}">>
              \o svc_Superscripts(From(s, RunLen(Tail(s), Digits) + 1))
         ELSE <<s[1]>> \o svc_Superscripts(Tail(s))

\* re.sub(r'_(\w)', r'_{\1}', latex)
RECURSIVE svc_Subscripts(_)
svc_Subscripts(s) ==
    IF ~Has(s, "_") THEN s
    ELSE IF s[1] = "_" /\ Len(s) >= 2 /\ IsWord(s[2])
         THEN <<"_", "{", s[2], "}">> \o svc_Subscripts(From(s, 2))
         ELSE <<s[1]>> \o svc_Subscripts(Tail(s))

\* try_convert_to_latex(text)
try_convert_to_latex(text) ==
    IF text = <<>> THEN None
    ELSE LET latex == svc_Subscripts(svc_Superscripts(FracSub(
                          ReplaceChars(text, svc_LatexTable))))
         IN  IF latex # text THEN latex ELSE None

\* re.match(r'^\s*\(\d+\)\s*$', text)
svc_EquationNumber(text) ==
    LET s == LStrip(text)
        n == IF s # <<>> /\ s[1] = "(" THEN RunLen(Tail(s), Digits) ELSE 0
    IN  /\ n >= 1
        /\ Len(s) >= n + 2
        /\ s[n + 2] = ")"
        /\ LET rest == From(s, n + 2)
               w == RunLen(rest, SpaceChars)
           IN  w = Len(rest)

\* is_display_math(text)
is_display_math(text) ==
    \/ Len(Strip(text)) > 50
    \/ svc_EquationNumber(text)
    \/ \E sym \in {"U+2211", "U+220F", "U+222B", "="} : Contains(text, <<sym>>)

\* the characters of the patterns of is_list_item and clean_list_item
svc_Bullets == {"U+2022", "U+00B7", "U+25CF", "U+25CB"}

\* is_list_item(text)
is_list_item(text) ==
    LET s == LStrip(text)
        after(m) == m >= 1 /\ Len(s) > m /\ IsSpace(s[m + 1])
    IN  \/ s # <<>> /\ s[1] \in svc_Bullets /\ after(1)
        \/ s # <<>> /\ s[1] \in ListDashes /\ after(1)
        \/ after(NumMarkerLen(s))
        \/ after(LetterMarkerLen(s))
        \/ after(ParenMarkerLen(s))

\* clean_list_item(text)
clean_list_item(text) ==
    LET s == LStrip(text)
        m == IF s # <<>> /\ s[1] \in svc_Bullets \cup ListDashes THEN 1
             ELSE IF NumMarkerLen(s) > 0 THEN NumMarkerLen(s)
             ELSE IF LetterMarkerLen(s) > 0 THEN LetterMarkerLen(s)
             ELSE ParenMarkerLen(s)
    IN  IF m = 0 THEN text ELSE LStrip(From(s, m))

\* bool(re.match(r'^\d+\.', line_text))
svc_ordered(text) ==
    LET n == RunLen(text, Digits) IN n >= 1 /\ Len(text) > n /\ text[n + 1] = "."

\* is_new_paragraph(text, current)
is_new_paragraph(text, current) ==
    IF current = <<>> THEN TRUE
    ELSE LET last == RStrip(current[Len(current)])
         IN  IF /\ last # <<>>
                /\ last[Len(last)] \in {".", "!", "?", ":"}
                /\ text # <<>>
                /\ IsUpperCased(text[1]) THEN TRUE
             ELSE Len(current) = 1 /\ Len(current[1]) < 30


\* the loop over a line's spans in process_text_block
RECURSIVE svc_SpanSignals(_, _)
svc_SpanSignals(spans, acc) ==
    IF spans = <<>> THEN acc
    ELSE LET sp == spans[1]
             mc == IF svc_is_math_font(sp.font) THEN Len(sp.text)
                   ELSE Cardinality({i \in 1..Len(sp.text) :
                                        svc_is_math_char(sp.text[i])})
         IN  svc_SpanSignals(Tail(spans),
                 [line_text |-> acc.line_text \o sp.text,
                  max_font_size |-> IF sp.size > acc.max_font_size
                                    THEN sp.size ELSE acc.max_font_size,
                  font_flags |-> acc.font_flags \cup sp.flags,
                  total_chars |-> acc.total_chars + Len(sp.text),
                  math_chars |-> acc.math_chars + mc])

svc_LineSignals(line) ==
    LET acc == svc_SpanSignals(line.spans,
                   [line_text |-> <<>>, max_font_size |-> 0, font_flags |-> {},
                    total_chars |-> 0, math_chars |-> 0])
    IN  [acc EXCEPT !.line_text = Strip(acc.line_text)]

\* the item process_text_block appends for a line with signals sig, heading
\* verdict h, when results already holds n items
svc_line_item(sig, h, pn, n) ==
    IF h[1]
    THEN [type |-> "heading", level |-> h[2], content |-> sig.line_text,
          id |-> <<"heading", pn, n>>]
    ELSE IF sig.total_chars > 0 /\ 10 * sig.math_chars > 3 * sig.total_chars
    THEN IF is_display_math(sig.line_text)
         THEN [type |-> "math_block", latex |-> try_convert_to_latex(sig.line_text),
               alt_text |-> sig.line_text, image_base64 |-> None]
         ELSE [type |-> "math_inline", latex |-> try_convert_to_latex(sig.line_text),
               alt_text |-> sig.line_text]
    ELSE IF is_list_item(sig.line_text)
    THEN [type |-> "list", ordered |-> svc_ordered(sig.line_text),
          items |-> <<clean_list_item(sig.line_text)>>]
    ELSE [type |-> "text", content |-> sig.line_text]

svc_line_results(sig, pn, results) ==
    IF sig.line_text = <<>> THEN results
    ELSE Append(results,
                svc_line_item(sig, detect_heading(sig.line_text, sig.max_font_size,
                                                  sig.font_flags),
                              pn, Len(results)))

\* process_text_block(block, page, page_num): results after the lines from k on
RECURSIVE process_text_block(_, _, _, _)
process_text_block(lines, k, pn, results) ==
    IF k > Len(lines) THEN results
    ELSE process_text_block(lines, k + 1, pn,
                            svc_line_results(svc_LineSignals(lines[k]), pn, results))

\* re.match(r'^\[?(\d+)\]?\s*(.+)$', content): <<group 1, group 2>>, None for no
\* match.  The quantifiers are greedy and give back from the right: the white
\* space first, then the closing bracket, then the last digit.
svc_ref_match(s) ==
    LET b == IF s # <<>> /\ s[1] = "[" THEN 1 ELSE 0
        d == RunLen(From(s, b), Digits)
        r1 == From(s, b + d)
        c == IF r1 # <<>> /\ r1[1] = "]" THEN 1 ELSE 0
        w == RunLen(From(r1, c), SpaceChars)
        r3 == From(r1, c + w)
        digits == SubSeq(s, b + 1, b + d)
    IN  IF d = 0 THEN None
        ELSE IF r3 # <<>> THEN <<digits, r3>>
        ELSE IF w > 0 THEN <<digits, From(r1, c + w - 1)>>
        ELSE IF c = 1 THEN <<digits, <<"]">>>>
        ELSE IF d >= 2 THEN <<SubSeq(digits, 1, d - 1), <<digits[d]>>>>
        ELSE None

svc_reference_item(content, m) ==
    IF m # None THEN [number |-> m[1], text |-> m[2]]
    ELSE [number |-> None, text |-> content]

svc_RefWords ==
    { <<"r","e","f","e","r","e","n","c","e","s">>,
      <<"b","i","b","l","i","o","g","r","a","p","h","y">>,
      <<"c","i","t","a","t","i","o","n","s">> }

\* what extract_structured_content carries from item to item
Accumulator ==
    [blocks |-> s_blocks, current_paragraph |-> s_paragraph,
     in_references |-> in_references, reference_items |-> reference_items]

\* "if current_paragraph: blocks.append(text block); current_paragraph = []"
svc_flush(acc) ==
    IF acc.current_paragraph = <<>> THEN acc
    ELSE [acc EXCEPT
            !.blocks = Append(@, [type |-> "text",
                                  content |-> JoinSpace(acc.current_paragraph)]),
            !.current_paragraph = <<>>]

\* a loop body without references mode: text always goes to the paragraph
svc_feed_item_plain(acc, item) ==
    IF item.type = "text"
    THEN [acc EXCEPT !.current_paragraph = Append(@, item.content)]
    ELSE [svc_flush(acc) EXCEPT !.blocks = Append(@, item)]

\* the body of "for item in block_result" of extract_structured_content
svc_feed_item(acc, item) ==
    IF item.type = "heading"
    THEN LET is_ref == \E ref \in svc_RefWords : Contains(Lower(item.content), ref)
             a == IF is_ref THEN [svc_flush(acc) EXCEPT !.in_references = TRUE]
                  ELSE acc
         IN  [a EXCEPT !.blocks = Append(@, item)]
    ELSE IF acc.in_references /\ item.type = "text"
    THEN [acc EXCEPT !.reference_items =
            Append(@, svc_reference_item(item.content, svc_ref_match(item.content)))]
    ELSE IF item.type \in {"math_block", "math_inline"}
    THEN [svc_flush(acc) EXCEPT !.blocks = Append(@, item)]
    ELSE IF item.type = "text"
    THEN LET content == Strip(item.content)
         IN  IF content = <<>> THEN acc
             ELSE IF is_new_paragraph(content, acc.current_paragraph)
             THEN [svc_flush(acc) EXCEPT !.current_paragraph = <<content>>]
             ELSE [acc EXCEPT !.current_paragraph = Append(@, content)]
    ELSE [svc_flush(acc) EXCEPT !.blocks = Append(@, item)]

RECURSIVE svc_feed_items(_, _)
svc_feed_items(acc, items) ==
    IF items = <<>> THEN acc
    ELSE svc_feed_items(svc_feed_item(acc, items[1]), Tail(items))

\* extract_image_block(block, page, page_num): <<>> for None, or <<figure item>>.
\* block.bbox is <<>> when block.get("bbox") is empty, otherwise <<rectangle>>.
extract_image_block(block, pixmap_ok) ==
    IF block.bbox = <<>> THEN <<>>
    ELSE IF RectWidth(block.bbox[1]) < 50 \/ RectHeight(block.bbox[1]) < 50 THEN <<>>
    ELSE IF ~pixmap_ok THEN <<>>
    ELSE << [type |-> "figure", image_base64 |-> "png", caption |-> None,
             figure_number |-> None] >>

\* re.sub(r'(\w+)-\s*\n\s*(\w+)', r'\1\2', text)
RECURSIVE svc_JoinBrokenWords(_)
svc_JoinBrokenWords(s) ==
    IF ~Has(s, "\n") THEN s
    ELSE IF IsWord(s[1])
         THEN LET n == RunLen(s, WordChars)
                  hyphen == Len(s) > n /\ s[n + 1] = "-"
                  w == IF hyphen THEN RunLen(From(s, n + 1), SpaceChars) ELSE 0
                  breaks == \E i \in 1..w : s[n + 1 + i] = "\n"
                  m == IF breaks THEN RunLen(From(s, n + 1 + w), WordChars) ELSE 0
              IN  IF m >= 1
                  THEN SubSeq(s, 1, n) \o SubSeq(s, n + 2 + w, n + 1 + w + m)
                       \o svc_JoinBrokenWords(From(s, n + 1 + w + m))
                  ELSE SubSeq(s, 1, n) \o svc_JoinBrokenWords(From(s, n))
         ELSE <<s[1]>> \o svc_JoinBrokenWords(Tail(s))

\* re.sub(r'\.([A-Z][a-z])', r'. \1', text)
svc_SpaceAfterPeriod(s) ==
    Flat([i \in 1..Len(s) |->
            IF /\ s[i] = "."
               /\ Len(s) >= i + 2
               /\ s[i + 1] \in AsciiUpper
               /\ s[i + 2] \in AsciiLower
            THEN <<".", " ">> ELSE <<s[i]>>])

\* re.sub(r'\n{3,}', '\n\n', text): of a run of line breaks the first two stay
svc_CollapseBreaks(s) ==
    Flat([i \in 1..Len(s) |->
            IF /\ s[i] = "\n"
               /\ i >= 3
               /\ s[i - 1] = "\n"
               /\ s[i - 2] = "\n"
            THEN <<>> ELSE <<s[i]>>])

\* the single-character keys of ligature_map
svc_LigatureTable ==
    [c \in {"U+FB01", "U+FB02", "U+FB00", "U+FB03", "U+FB04", "U+FB05", "U+FB06",
            "U+2212", "U+2013", "U+2014", "U+2026", "U+00AD", "U+200B", "U+FEFF"} |->
        CASE c = "U+FB01" -> <<"f", "i">>
          [] c = "U+FB02" -> <<"f", "l">>
          [] c = "U+FB00" -> <<"f", "f">>
          [] c = "U+FB03" -> <<"f", "f", "i">>
          [] c = "U+FB04" -> <<"f", "f", "l">>
          [] c \in {"U+FB05", "U+FB06"} -> <<"s", "t">>
          [] c \in {"U+2212", "U+2013", "U+2014"} -> <<"-">>
          [] c = "U+2026" -> <<".", ".", ".">>
          [] OTHER -> <<>>]

\* clean_extracted_text(text)
clean_extracted_text(text) ==
    IF text = <<>> THEN <<>>
    ELSE Strip(DropSpaceBeforePunct(svc_CollapseBreaks(CollapseSpaces(
             svc_SpaceAfterPeriod(svc_JoinBrokenWords(
                 ReplaceChars(ReplaceSub(text, QuoteKey, <<"'">>),
                              svc_LigatureTable)))))))

SentenceEnd == {".", "!", "?", ":"}

\* the inner while loop of post_process_blocks on a text block: <<content, j>>
RECURSIVE svc_merge_text(_, _, _)
svc_merge_text(bs, content, j) ==
    IF j <= Len(bs) /\ bs[j].type = "text"
       /\ ~(content # <<>> /\ content[Len(content)] \in SentenceEnd)
    THEN svc_merge_text(bs, content \o <<" ">> \o bs[j].content, j + 1)
    ELSE <<content, j>>

\* the inner while loop of post_process_blocks on a list block: <<items, j>>
RECURSIVE svc_merge_list(_, _, _, _)
svc_merge_list(bs, ordered, items, j) ==
    IF j <= Len(bs) /\ bs[j].type = "list" /\ bs[j].ordered = ordered
    THEN svc_merge_list(bs, ordered, items \o bs[j].items, j + 1)
    ELSE <<items, j>>

\* post_process_blocks(blocks): the loop from index i on
RECURSIVE post_process_from(_, _, _)
post_process_from(bs, i, res) ==
    IF i > Len(bs) THEN res
    ELSE IF bs[i].type = "list"
    THEN LET m == svc_merge_list(bs, bs[i].ordered, bs[i].items, i + 1)
         IN  post_process_from(bs, m[2],
                 Append(res, [type |-> "list", ordered |-> bs[i].ordered,
                              items |-> m[1]]))
    ELSE IF bs[i].type = "text"
    THEN LET m == svc_merge_text(bs, bs[i].content, i + 1)
             content == clean_extracted_text(m[1])
         IN  post_process_from(bs, m[2],
                 IF Strip(content) # <<>>
                 THEN Append(res, [type |-> "text", content |-> content])
                 ELSE res)
    ELSE post_process_from(bs, i + 1, Append(res, bs[i]))

post_process_blocks(bs) == post_process_from(bs, 1, <<>>)


(***************************************************************************)
(* extract_structured_content(doc), one step per block of a page           *)
(***************************************************************************)
SvcMaxBlocks == 3

TextBlock(lineSpans) == TextBlocks(lineSpans, LineBox)[1]
ImageBlock(bbox) == [type |-> 1, bbox |-> <<bbox>>]

B_references == TextBlock(<<Body(<<"R","e","f","e","r","e","n","c","e","s">>)>>)
B_methods == TextBlock(<<L_methods>>)
B_smith ==
    TextBlock(<<Body(<<"[","1","]"," ","S","m","i","t","h",","," ","J","."," ",
                       "(","2","0","2","0",")",".">>)>>)
B_second ==
    TextBlock(<<Body(<<"S","e","c","o","n","d"," ","e","n","t","r","y"," ",
                       "w","i","t","h","o","u","t"," ",
                       "b","r","a","c","k","e","t","s">>)>>)
B_twelve == TextBlock(<<Body(<<"1","2">>)>>)
B_infor == TextBlock(<<L_infor>>)
B_mation == TextBlock(<<L_mation>>)
B_math == TextBlock(<<L_math>>)
B_image == ImageBlock(Rect(100, 300, 300, 500))

\* blocks around a references section, and blocks of running text
ReferenceCatalogue == {B_references, B_methods, B_smith, B_second, B_twelve}
ParagraphCatalogue == {B_infor, B_mation, B_methods, B_math, B_image}

BlockPages(bs, c, np) ==
    [p \in 1..np |->
        [rect |-> PageRect, blocks |-> SubSeq(bs, c[p - 1] + 1, c[p]),
         images |-> <<>>, pixmap_ok |-> TRUE]]

\* doc is one of the documents of at most max_blocks blocks of one catalogue,
\* cut into at most max_pages pages
IsDocSvc(max_blocks, max_pages) ==
    \E bs \in SeqsUpTo(ReferenceCatalogue, max_blocks)
                \cup SeqsUpTo(ParagraphCatalogue, max_blocks),
       np \in 1..max_pages :
        \E c \in Cuts(Len(bs), np) : doc = MkDoc(BlockPages(bs, c, np), <<>>)

InitSvc ==
    /\ IsDocSvc(SvcMaxBlocks, MaxPages)
    /\ pc = "svc"
    /\ run = 1
    /\ first = <<>>
    /\ Constructed
    /\ ServiceIdle

SvcPage == doc.pages[s_page + 1]
SvcBlock == SvcPage.blocks[s_block + 1]

\* metadata of extract_structured_content
svc_metadata(d) ==
    IF d.metadata = None THEN <<>>
    ELSE [title |-> d.metadata.title, author |-> d.metadata.author,
          subject |-> d.metadata.subject]

SvcAssign(acc) ==
    /\ s_blocks' = acc.blocks
    /\ s_paragraph' = acc.current_paragraph
    /\ in_references' = acc.in_references
    /\ reference_items' = acc.reference_items

\* a text block of the page: process_text_block, then the loop over its items
SvcTextBlock ==
    /\ pc = "svc"
    /\ s_page < Len(doc.pages)
    /\ s_block < Len(SvcPage.blocks)
    /\ SvcBlock.type = 0
    /\ SvcAssign(svc_feed_items(Accumulator,
                     process_text_block(SvcBlock.lines, 1, s_page, <<>>)))
    /\ s_block' = s_block + 1
    /\ UNCHANGED <<doc, pc, ex_vars, s_page, s_result>>

\* an image block of the page
SvcImageBlock ==
    /\ pc = "svc"
    /\ s_page < Len(doc.pages)
    /\ s_block < Len(SvcPage.blocks)
    /\ SvcBlock.type = 1
    /\ LET img_result == extract_image_block(SvcBlock, SvcPage.pixmap_ok)
       IN  IF img_result = <<>> THEN SvcAssign(Accumulator)
           ELSE SvcAssign([svc_flush(Accumulator) EXCEPT
                              !.blocks = Append(@, img_result[1])])
    /\ s_block' = s_block + 1
    /\ UNCHANGED <<doc, pc, ex_vars, s_page, s_result>>

\* the blocks of the page are done: the next page
SvcNextPage ==
    /\ pc = "svc"
    /\ s_page < Len(doc.pages)
    /\ s_block = Len(SvcPage.blocks)
    /\ s_page' = s_page + 1
    /\ s_block' = 0
    /\ UNCHANGED <<doc, pc, ex_vars, s_blocks, s_paragraph, in_references,
                   reference_items, s_result>>

\* after the last page: the last paragraph, the references block, post-processing
svc_final_blocks(acc) ==
    LET flushed == svc_flush(acc).blocks
    IN  post_process_blocks(
            IF acc.reference_items # <<>>
            THEN Append(flushed, [type |-> "references",
                                  items |-> acc.reference_items])
            ELSE flushed)

SvcFinish ==
    /\ pc = "svc"
    /\ s_page = Len(doc.pages)
    /\ s_blocks' = svc_final_blocks(Accumulator)
    /\ s_result' = [blocks |-> s_blocks', metadata |-> svc_metadata(doc)]
    /\ pc' = "svc_done"
    /\ UNCHANGED <<doc, ex_vars, s_page, s_block, s_paragraph, in_references,
                   reference_items>>

NextSvc ==
    \/ SvcTextBlock
    \/ SvcImageBlock
    \/ SvcNextPage
    \/ SvcFinish

SpecSvc == InitSvc /\ [][NextSvc]_vars


(***************************************************************************)
(* Two runs of PDFExtractor.extract() on one document                      *)
(***************************************************************************)
InitDet ==
    /\ doc \in DocsFig(MaxImages) \cup DocsToc(MaxToc) \cup DocsBroken
    /\ pc = "open"
    /\ run = 1
    /\ first = <<>>
    /\ Constructed
    /\ ServiceIdle

\* a second PDFExtractor(file_path).extract() on the same document
Rerun ==
    /\ pc = "done"
    /\ run = 1
    /\ first' = result
    /\ run' = 2
    /\ pc' = "open"
    /\ self_doc' = None
    /\ page_count' = 0
    /\ page_num' = 0
    /\ line_idx' = 0
    /\ current_paragraph' = <<>>
    /\ blocks' = <<>>
    /\ images' = <<>>
    /\ outline' = <<>>
    /\ plain_text_parts' = <<>>
    /\ char_offset' = 0
    /\ median_font_size' = 12
    /\ result' = <<>>
    /\ UNCHANGED <<doc, svc_vars>>

NextDet ==
    \/ Next
    \/ Rerun

SpecDet == InitDet /\ [][NextDet]_vars

(***************************************************************************)
(* Properties of PDFExtractor.extract()                                    *)
(***************************************************************************)
Returned == pc = "done"

\* the blocks that carry character offsets: every block but a figure
OffsetBlocks(bs) == SelectSeq(bs, LAMBDA b : b.type # "figure")

\* C1: in the result of extract(), every block with offsets has
\* char_start <= char_end, and of two blocks adjacent among the blocks with
\* offsets the earlier one's char_end is at most the later one's char_start.
C1_OffsetsMonotonic ==
    Returned =>
        LET ob == OffsetBlocks(result.blocks)
        IN  /\ \A i \in 1..Len(ob) : ob[i].source.char_start <= ob[i].source.char_end
            /\ \A i \in 1..(Len(ob) - 1) :
                  ob[i].source.char_end <= ob[i + 1].source.char_start

\* C3: after extract(), every outline item, from detected headings or from the
\* table of contents, carries the id of a block of the result.
C3_OutlineResolves ==
    Returned =>
        \A i \in 1..Len(result.outline) :
            \E j \in 1..Len(result.blocks) :
                result.blocks[j].id = result.outline[i].block_id

\* C4: the blocks of the result are in page order, and two blocks of one page
\* (figures included) are in the order of their regions from the top of the page.
C4_ReadingOrder ==
    Returned =>
        \A i, j \in 1..Len(result.blocks) :
            i < j =>
                /\ result.blocks[i].source.page <= result.blocks[j].source.page
                /\ result.blocks[i].source.page = result.blocks[j].source.page
                      => FracLeq(result.blocks[i].source.bbox.y0,
                                 result.blocks[j].source.bbox.y0)

\* C5: two runs of extract() on the same document return the same
\* ExtractionResult, block ids, image ids and outline references included.
C5_Deterministic == (Returned /\ run = 2) => result = first

BoxValid(b) ==
    /\ FracLeq(FracZero, b.x0) /\ FracLeq(b.x0, b.x1) /\ FracLeq(b.x1, FracOne)
    /\ FracLeq(FracZero, b.y0) /\ FracLeq(b.y0, b.y1) /\ FracLeq(b.y1, FracOne)

\* C6: every bounding box of the result, of a block or of an extracted image,
\* has 0 <= x0 <= x1 <= 1 and 0 <= y0 <= y1 <= 1.
C6_BoxesNormalized ==
    Returned =>
        /\ \A i \in 1..Len(result.blocks) : BoxValid(result.blocks[i].source.bbox)
        /\ \A k \in DOMAIN result.images : BoxValid(result.images[k].bbox)

\* the non-empty lines of the pages from page p on, in input order, each with
\* the class the extractor gives it
RECURSIVE ClassifiedLines(_, _, _)
ClassifiedLines(lines, k, median) ==
    IF k > Len(lines) THEN <<>>
    ELSE LET sig == LineSignals(lines[k])
         IN  (IF sig.line_text = <<>> THEN <<>>
              ELSE << [text |-> sig.line_text,
                       class |-> classify_line(sig.line_text, sig.max_font_size,
                                               sig.is_bold, sig.math_chars,
                                               sig.total_chars, median)] >>)
             \o ClassifiedLines(lines, k + 1, median)

RECURSIVE InputLines(_, _)
InputLines(pages, median) ==
    IF pages = <<>> THEN <<>>
    ELSE ClassifiedLines(PageLines(pages[1]), 1, median)
         \o InputLines(Tail(pages), median)

\* the maximal runs of consecutive list lines of one ordering kind; open: the
\* last run ends at the line before ls[1]
RECURSIVE ListRuns(_, _, _)
ListRuns(ls, runs, open) ==
    IF ls = <<>> THEN runs
    ELSE IF ls[1].class # "list" THEN ListRuns(Tail(ls), runs, FALSE)
    ELSE IF open /\ runs[Len(runs)].ordered = list_ordered(ls[1].text)
    THEN ListRuns(Tail(ls),
                  [runs EXCEPT ![Len(runs)].items =
                      Append(@, clean_list_marker(ls[1].text))],
                  TRUE)
    ELSE ListRuns(Tail(ls),
                  Append(runs, [ordered |-> list_ordered(ls[1].text),
                                items |-> <<clean_list_marker(ls[1].text)>>]),
                  TRUE)

ListBlocks(bs) ==
    LET ls == SelectSeq(bs, LAMBDA b : b.type = "list")
    IN  [i \in 1..Len(ls) |-> [ordered |-> ls[i].ordered, items |-> ls[i].items]]

\* C9: the List blocks of the result are exactly the maximal runs of list lines
\* that are consecutive in the input and of one ordering kind: a change of kind
\* or any text, heading or math line between two list lines separates them.
C9_ListRuns ==
    Returned =>
        ListBlocks(result.blocks)
            = ListRuns(InputLines(doc.pages, median_font_size), <<>>, FALSE)


(***************************************************************************)
(* Properties of extract_structured_content                                *)
(***************************************************************************)
SvcReturned == pc = "svc_done"

\* the items the loop of extract_structured_content meets, in input order: the
\* results of process_text_block for a text block, the figure of an image block
RECURSIVE PageItems(_, _, _, _)
PageItems(bs, k, pn, pixmap_ok) ==
    IF k > Len(bs) THEN <<>>
    ELSE (IF bs[k].type = 0 THEN process_text_block(bs[k].lines, 1, pn, <<>>)
          ELSE extract_image_block(bs[k], pixmap_ok))
         \o PageItems(bs, k + 1, pn, pixmap_ok)

RECURSIVE DocItems(_, _)
DocItems(pages, pn) ==
    IF pn >= Len(pages) THEN <<>>
    ELSE PageItems(pages[pn + 1].blocks, 1, pn, pages[pn + 1].pixmap_ok)
         \o DocItems(pages, pn + 1)

InputItems == DocItems(doc.pages, 0)

\* the items of the block the next step consumes
NextItems ==
    IF pc = "svc" /\ s_page < Len(doc.pages) /\ s_block < Len(SvcPage.blocks)
    THEN PageItems(<<SvcBlock>>, 1, s_page, SvcPage.pixmap_ok)
    ELSE <<>>

Interrupting == {"heading", "math_block", "math_inline", "figure"}

\* C2: when a heading (of any title), a math item or a figure arrives while the
\* paragraph accumulator holds text, the pending paragraph is emitted as a Text
\* block and the arriving block follows it.
C2_FlushBeforeBlock ==
    [][ (/\ NextItems # <<>>
         /\ NextItems[1].type \in Interrupting
         /\ s_paragraph # <<>>)
        => /\ Len(s_blocks') >= Len(s_blocks) + 2
           /\ s_blocks'[Len(s_blocks) + 1]
                = [type |-> "text", content |-> JoinSpace(s_paragraph)]
           /\ s_blocks'[Len(s_blocks) + 2] = NextItems[1] ]_vars

IsRefHeading(b) ==
    /\ b.type = "heading"
    /\ \E ref \in svc_RefWords : Contains(Lower(b.content), ref)

\* the index of the first heading naming references, 0 when there is none
RefStart(items) ==
    LET hs == {i \in 1..Len(items) : IsRefHeading(items[i])}
    IN  IF hs = {} THEN 0 ELSE MinOf(hs)

\* the text lines after the first references heading, in input order
LaterTexts(items) ==
    LET later == SelectSeq(SubSeq(items, RefStart(items) + 1, Len(items)),
                           LAMBDA b : b.type = "text")
    IN  [i \in 1..Len(later) |-> later[i].content]

ReferencesBlocks(out) == {i \in 1..Len(out) : out[i].type = "references"}

NoTextAfterRefHeading(out) ==
    \A i \in (RefStart(out) + 1)..Len(out) : out[i].type # "text"

\* C7: once a references heading has been seen, no later text line is emitted as
\* or merged into a Text block; every one of them is an entry of a References
\* block that is the only one and the last block of the output, and there is no
\* References block when no text line follows the heading.
C7_ReferencesCollected ==
    (SvcReturned /\ RefStart(InputItems) > 0) =>
        LET out == s_result.blocks
            later == LaterTexts(InputItems)
        IN  /\ NoTextAfterRefHeading(out)
            /\ IF later = <<>> THEN ReferencesBlocks(out) = {}
               ELSE /\ ReferencesBlocks(out) = {Len(out)}
                    /\ Len(out[Len(out)].items) = Len(later)

\* C7 as stated: once a references heading has been seen, no later text line is
\* emitted as or merged into a Text block, and the output contains exactly one
\* References block, its last block.
C7_ExactlyOneReferencesBlock ==
    (SvcReturned /\ RefStart(InputItems) > 0) =>
        /\ NoTextAfterRefHeading(s_result.blocks)
        /\ ReferencesBlocks(s_result.blocks) = {Len(s_result.blocks)}

\* a references heading, a further heading, then a text line, with blocks on a
\* second page; the output ends with the References block
C7_Witness ==
    /\ SvcReturned
    /\ Len(doc.pages) = 2
    /\ doc.pages[2].blocks # <<>>
    /\ LET items == InputItems
           r == RefStart(items)
       IN  /\ r > 0
           /\ \E i, j \in (r + 1)..Len(items) :
                 i < j /\ items[i].type = "heading" /\ items[j].type = "text"
    /\ s_result.blocks[Len(s_result.blocks)].type = "references"

\* the entry the description gives a line: the digits of a leading [n] or of a
\* bare leading number and the remainder, or no number and the whole line
ExpectedReference(s) ==
    LET b == IF s # <<>> /\ s[1] = "[" THEN 1 ELSE 0
        d == RunLen(From(s, b), Digits)
        closed == b = 0 \/ (Len(s) > b + d /\ s[b + d + 1] = "]")
    IN  IF d >= 1 /\ closed
        THEN [number |-> SubSeq(s, b + 1, b + d), text |-> LStrip(From(s, b + d + b))]
        ELSE [number |-> None, text |-> s]

\* C8: k text lines after the references heading give k reference items in
\* input order; an item's number is the digits of the leading [n] or bare
\* number and its text the remainder; a line without one has number None and
\* the whole line as text.
C8_ReferenceItems ==
    (SvcReturned /\ RefStart(InputItems) > 0 /\ LaterTexts(InputItems) # <<>>) =>
        LET out == s_result.blocks
            later == LaterTexts(InputItems)
        IN  /\ out[Len(out)].type = "references"
            /\ out[Len(out)].items
                 = [i \in 1..Len(later) |-> ExpectedReference(later[i])]

\* C10: two consecutive text lines of which the earlier ends with a hyphen are
\* never assembled into one paragraph with the hyphen and a space between them.
C10_HyphenationRepaired ==
    SvcReturned =>
        LET items == InputItems
            out == s_result.blocks
        IN  \A i \in 1..(Len(items) - 1) :
                (/\ items[i].type = "text"
                 /\ items[i + 1].type = "text"
                 /\ EndsWith(items[i].content, "-"))
                => \A k \in 1..Len(out) :
                      out[k].type = "text"
                      => ~Contains(out[k].content,
                                   items[i].content \o <<" ">> \o items[i + 1].content)

(***************************************************************************)
(* One line through both line classifiers                                  *)
(*   doc is the line (its spans), median_font_size the corpus median;      *)
(*   result holds what _process_text_block decides for the line and what   *)
(*   process_text_block of services.py returns for it.                     *)
(***************************************************************************)
\* the character c, n times
Rep(c, n) == [i \in 1..n |-> c]

LongLine == 101

T_numcaps == <<"2",".","1"," ","B","A","C","K","G","R","O","U","N","D">>
T_numdot == <<"2",".","1","."," ","M","e","t","h","o","d","s">>
T_onecaps == <<"2"," ","B","A","C","K","G","R","O","U","N","D">>
T_firstitem == <<"1","."," ","F","i","r","s","t"," ","i","t","e","m">>
T_methods == <<"M","e","t","h","o","d","s">>
T_plain == <<"m","a","t","i","o","n"," ","t","h","e","o","r","y">>
T_twofifths == <<"U+03B1","U+03B2","a","b","c">>
T_threefifths == <<"U+03B1","U+03B2","U+2211","b","c">>
T_mathlist == <<"-"," ","U+03B1","U+03B2">>
T_blank == <<" "," ">>
T_caps_long == Rep("A", LongLine)
T_caps_limit == Rep("A", LongLine - 1)
T_num_long == <<"2",".","1","."," ">> \o Rep("x", LongLine - 5)
T_methods_long == <<"M","e","t","h","o","d","s">> \o Rep("x", LongLine - 7)
T_methods_limit == <<"M","e","t","h","o","d","s">> \o Rep("x", LongLine - 8)

TextCatalogue ==
    {T_numcaps, T_numdot, T_onecaps, T_firstitem, T_methods, T_plain, T_twofifths,
     T_threefifths, T_mathlist, T_blank, T_caps_long, T_caps_limit, T_num_long,
     T_methods_long, T_methods_limit}

FontSizes == {10, 12, 13, 20}
Medians == {10, 12}

\* a line of one span, and lines of a span in a mathematical font followed by a
\* span of running text (2 of 5 and 3 of 5 characters in the mathematical font)
LineInputs ==
    {[spans |-> <<Span(t, f, sz, fl)>>, bbox |-> LineBox(1)] :
        t \in TextCatalogue, f \in {Times, CMMI}, sz \in FontSizes, fl \in {{}, {16}}}
    \cup
    {[spans |-> <<Span(Rep("x", n), CMMI, 10, {}), Span(Rep("y", 5 - n), Times, sz, {})>>,
      bbox |-> LineBox(1)] : n \in {2, 3}, sz \in FontSizes}

InitLine ==
    /\ doc \in LineInputs
    /\ pc = "line"
    /\ run = 1
    /\ first = <<>>
    /\ self_doc = None
    /\ page_count = 0
    /\ page_num = 0
    /\ line_idx = 0
    /\ current_paragraph = <<>>
    /\ blocks = <<>>
    /\ images = <<>>
    /\ outline = <<>>
    /\ plain_text_parts = <<>>
    /\ char_offset = 0
    /\ median_font_size \in Medians
    /\ result = <<>>
    /\ ServiceIdle

\* what _process_text_block decides for a line: nothing for a line that is empty
\* once stripped, else the class of _classify_line and, for a heading, the level
\* of _determine_heading_level
line_decision(line, median) ==
    LET sig == LineSignals(line)
        content_type == classify_line(sig.line_text, sig.max_font_size, sig.is_bold,
                                      sig.math_chars, sig.total_chars, median)
    IN  IF sig.line_text = <<>> THEN [content_type |-> "skipped", level |-> 0]
        ELSE [content_type |-> content_type,
              level |-> IF content_type = "heading"
                        THEN determine_heading_level(sig.max_font_size, sig.line_text,
                                                     median)
                        ELSE 0]

\* the line goes through _process_text_block's classification and through
\* process_text_block of services.py
ClassifyLine ==
    /\ pc = "line"
    /\ result' = [line |-> line_decision(doc, median_font_size),
                  svc |-> process_text_block(<<doc>>, 1, 0, <<>>)]
    /\ pc' = "classified"
    /\ UNCHANGED <<doc, run, first, page_count, page_num, line_idx, current_paragraph,
                   blocks, images, outline, plain_text_parts, char_offset,
                   median_font_size, svc_vars,
                   self_doc>>

NextLine == ClassifyLine

SpecLine == InitLine /\ [][NextLine]_vars

(***************************************************************************)
(* Properties of the line classifiers                                      *)
(***************************************************************************)
Classified == pc = "classified"

\* the stripped text of the line, and its counts of characters
LineText == LineSignals(doc).line_text
MathChars == LineSignals(doc).math_chars
TotalChars == LineSignals(doc).total_chars

\* the number k of components of a section number \d+(\.\d+)* at the start of s
RECURSIVE NumComponents(_)
NumComponents(s) ==
    LET n == RunLen(s, Digits)
    IN  IF n = 0 THEN 0
        ELSE IF Len(s) >= n + 2 /\ s[n + 1] = "." /\ IsDigit(s[n + 2])
        THEN 1 + NumComponents(From(s, n + 1))
        ELSE 1

\* C11: a line classified as a heading whose text begins with a section number
\* of k components, with or without a trailing dot, has level k, capped at 6,
\* whatever its font size and capitalisation.
C11_NumberedLevel ==
    (/\ Classified
     /\ result.line.content_type = "heading"
     /\ NumComponents(LineText) >= 1)
    => result.line.level = (IF NumComponents(LineText) < 6
                            THEN NumComponents(LineText) ELSE 6)

\* the one item process_text_block returns for a line that is not skipped
SvcItem == result.svc[1]
SvcMath == {"math_block", "math_inline"}

\* C12: both classifiers decide by the priority math, list, heading, text: a
\* line over the math threshold is math whatever else it matches, and a line
\* under it that starts with a list enumerator is a list item.
C12_Priority ==
    (Classified /\ LineText # <<>>) =>
        /\ 10 * MathChars > 4 * TotalChars => result.line.content_type = "math"
        /\ (~(10 * MathChars > 4 * TotalChars) /\ IsListLine(LineText))
              => result.line.content_type = "list"
        /\ 10 * MathChars > 3 * TotalChars => SvcItem.type \in SvcMath
        /\ (~(10 * MathChars > 3 * TotalChars) /\ is_list_item(LineText))
              => SvcItem.type = "list"

\* C13: a line whose stripped text is longer than 100 characters is a heading
\* for neither classifier.
C13_LongLineNoHeading ==
    (Classified /\ Len(LineText) > 100) =>
        /\ result.line.content_type # "heading"
        /\ SvcItem.type # "heading"

\* a numbered line of 101 characters in bold 20pt type has been classified
C13_Witness ==
    /\ Classified
    /\ LineText = T_num_long
    /\ doc.spans[1].size = 20
    /\ 16 \in doc.spans[1].flags
    /\ doc.spans[1].font = Times
    /\ result.line.content_type = "text"
    /\ SvcItem.type = "text"

\* C14: a line is math exactly when its count of mathematical characters is
\* more than 0.4 of its count of characters.
C14_MathThreshold ==
    (Classified /\ LineText # <<>>) =>
        (result.line.content_type = "math" <=> 10 * MathChars > 4 * TotalChars)

\* a line with 2 mathematical characters of 5 has been classified, and not as math
C14_Witness ==
    /\ Classified
    /\ MathChars = 2
    /\ TotalChars = 5
    /\ result.line.content_type \in {"text", "heading"}

(***************************************************************************)
(* Properties of the figures                                               *)
(***************************************************************************)
\* the image has a placement rectangle of at least the minimum size
LargeEnough(img) ==
    /\ img.rects # <<>>
    /\ RectWidth(img.rects[1]) >= MinImageSize
    /\ RectHeight(img.rects[1]) >= MinImageSize

\* the region below the image has no text that starts with a label and a digit
Unlabelled(img) == CaptionMatches(Strip(img.below)) = {}

\* the Figure blocks of the result that lie on page pn (0-based), in block order
FiguresOn(pn) ==
    LET onPage(b) == b.type = "figure" /\ b.source.page = pn
    IN  SelectSeq(result.blocks, onPage)

\* there is one Figure block per image of imgs, in order, each referencing a
\* stored image; the block of an image with no label below has no caption and
\* no figure number
OneFigureEach(imgs, figs) ==
    /\ Len(figs) = Len(imgs)
    /\ \A i \in 1..Len(imgs) :
          /\ figs[i].image_id \in DOMAIN result.images
          /\ Unlabelled(imgs[i]) =>
                figs[i].caption = None /\ figs[i].figure_number = None

\* C15: every embedded image of at least 50 by 50 whose bytes can be extracted
\* and whose caption search returns has exactly one Figure block of its own in
\* the result, and when the region below it has no text starting with a
\* figure, table or scheme label and a digit, that block has caption = null
\* and figure_number = null.
C15_CaptionMiss ==
    Returned =>
        \A p \in 1..Len(doc.pages) :
            LET usable(img) == /\ LargeEnough(img)
                               /\ img.extract = "ok"
                               /\ ~img.caption_raises
            IN  OneFigureEach(SelectSeq(doc.pages[p].images, usable),
                              FiguresOn(p - 1))

(***************************************************************************)
(* Properties of the failure paths                                         *)
(***************************************************************************)
\* what extract() returns when it runs to its end on the document of no pages
ValidEmptyResult ==
    [blocks |-> <<>>,
     outline |-> extract_toc(EmptyDocument.toc, <<>>, build_outline(<<>>)),
     images |-> <<>>,
     metadata |-> extract_metadata(EmptyDocument),
     plain_text |-> JoinBlankLine(<<>>),
     page_count |-> Len(EmptyDocument.pages)]

\* C16: when the source cannot be opened, extract() does not return what it
\* returns for a successful extraction of a valid empty document: the caller
\* can tell the failure from that result.
C16_OpenFailureSurfaced ==
    (Returned /\ ~doc.opens) => result # ValidEmptyResult

\* extract() has run to its end on the document of no pages
C16_EmptyDocumentExtracted ==
    /\ Returned
    /\ doc = EmptyDocument
    /\ result = ValidEmptyResult

\* C17: a failure in one line, image, caption search or outline entry does not
\* abort the rest: whenever extract() returns on a document that opened, the
\* result holds every block the extractor has emitted for the lines and
\* images it processed.
C17_LocalFailureContained ==
    (Returned /\ doc.opens) =>
        \A i \in DOMAIN blocks :
            \E j \in DOMAIN result.blocks : result.blocks[j] = blocks[i]

(***************************************************************************)
(* Properties of the font statistics                                       *)
(***************************************************************************)
\* the sizes of all runs of the document, page after page
AllSizes == PageSizes(doc.pages)

PositiveSizes ==
    LET positive(size) == size > 0 IN SelectSeq(AllSizes, positive)

\* v is the element at index len(sizes) // 2 (0-based) of sizes once sorted
IsMedian(v, sizes) ==
    LET mid == Len(sizes) \div 2
    IN  /\ \E i \in 1..Len(sizes) : sizes[i] = v
        /\ Cardinality({i \in 1..Len(sizes) : sizes[i] < v}) <= mid
        /\ mid < Cardinality({i \in 1..Len(sizes) : sizes[i] <= v})

\* C18: from the end of the first pass on, so before the first line is
\* classified and in every state after it, median_font_size is the median
\* sizes[len(sizes) // 2] of the positive run sizes of all pages of the
\* document, and 12 when no run has a positive size.
C18_MedianBeforeLines ==
    pc \notin {"open", "stats"} =>
        IF PositiveSizes = <<>> THEN median_font_size = 12
        ELSE IsMedian(median_font_size, PositiveSizes)

\* the first line of a document is about to be classified; the runs of its
\* first page have size 10, the median over both pages is 20
C18_Witness ==
    /\ pc = "lines"
    /\ page_num = 0
    /\ line_idx = 0
    /\ blocks = <<>>
    /\ PageLines(doc.pages[1]) # <<>>
    /\ \A i \in 1..Len(PageLines(doc.pages[1])) :
          PageLines(doc.pages[1])[i].spans[1].size = 10
    /\ median_font_size = 20

(***************************************************************************)
(* Properties of the outline                                               *)
(***************************************************************************)
\* the Heading blocks of the result, in block order
HeadingBlocks ==
    LET heading(b) == b.type = "heading" IN SelectSeq(result.blocks, heading)

\* one outline item per entry of the table of contents, in its order
TocDerived ==
    /\ Len(result.outline) = Len(doc.toc)
    /\ \A i \in 1..Len(doc.toc) :
          /\ result.outline[i].title = Strip(doc.toc[i].title)
          /\ result.outline[i].level = doc.toc[i].level
          /\ result.outline[i].page = doc.toc[i].page - 1

\* one outline item per Heading block, in block order, with the block's id,
\* level, text and page
HeadingDerived ==
    /\ Len(result.outline) = Len(HeadingBlocks)
    /\ \A i \in 1..Len(HeadingBlocks) :
          result.outline[i] =
              [title |-> HeadingBlocks[i].content, level |-> HeadingBlocks[i].level,
               block_id |-> HeadingBlocks[i].id, page |-> HeadingBlocks[i].source.page]

\* C19: the outline of the result is derived from the table of contents when
\* the table of contents has strictly more entries than there are Heading
\* blocks, and from the Heading blocks otherwise.
C19_OutlineSource ==
    Returned =>
        IF Len(doc.toc) > Len(HeadingBlocks) THEN TocDerived ELSE HeadingDerived

(***************************************************************************)
(* services.search_in_text(text, query, context_chars)                     *)
(*   doc = [text, query]: the arguments; result: the list it returns       *)
(***************************************************************************)
\* str.lower(): the capital I with a dot above becomes "i" and a combining dot
str_lower(s) ==
    Flat([i \in 1..Len(s) |->
            IF s[i] = "U+0130" THEN <<"i", "U+0307">> ELSE <<LowerChar(s[i])>>])

\* s[a:b] for a, b >= 0, as Python slices
Slice(s, a, b) == SubSeq(s, a + 1, IF b < Len(s) THEN b ELSE Len(s))

\* s.find(sub, start): the lowest index from start on where sub begins, or -1
str_find(s, sub, start) ==
    LET hits == {i \in start..(Len(s) - Len(sub)) : SubSeq(s, i + 1, i + Len(sub)) = sub}
    IN  IF hits = {} THEN -1 ELSE MinOf(hits)

\* the default of context_chars, and the number of results at which the loop stops
ContextChars == 100
SearchLimit == 50

\* the result search_in_text appends for a match at idx
search_result(text, query, context_chars, idx) ==
    LET context_start == IF idx - context_chars > 0 THEN idx - context_chars ELSE 0
        context_end == IF Len(text) < idx + Len(query) + context_chars
                       THEN Len(text) ELSE idx + Len(query) + context_chars
    IN  [text |-> Slice(text, idx, idx + Len(query)),
         start_idx |-> idx,
         end_idx |-> idx + Len(query),
         context_before |-> Slice(text, context_start, idx),
         context_after |-> Slice(text, idx + Len(query), context_end)]

\* the while loop of search_in_text from start on
RECURSIVE search_from(_, _, _, _, _, _, _)
search_from(text, query, context_chars, text_lower, query_lower, start, results) ==
    LET idx == str_find(text_lower, query_lower, start)
    IN  IF idx = -1 THEN results
        ELSE IF Len(results) + 1 >= SearchLimit
        THEN Append(results, search_result(text, query, context_chars, idx))
        ELSE search_from(text, query, context_chars, text_lower, query_lower, idx + 1,
                         Append(results, search_result(text, query, context_chars, idx)))

search_in_text(text, query, context_chars) ==
    search_from(text, query, context_chars, str_lower(text), str_lower(query), 0, <<>>)

\* texts of up to SearchLen characters, a text with more occurrences than
\* SearchLimit, and a text with more than ContextChars characters on both
\* sides of an occurrence
SearchLen == 3
ManyHits == 52
WideContext == 101

SearchTexts ==
    SeqsUpTo({"a", "A", "b", "U+0130"}, SearchLen)
    \cup {Rep("a", ManyHits), Rep("b", WideContext) \o <<"a">> \o Rep("b", WideContext)}

SearchQueries == {<<>>, <<"a">>, <<"A", "b">>, <<"b">>, <<"U+0130">>}

InitSearch ==
    /\ doc \in [text : SearchTexts, query : SearchQueries]
    /\ pc = "search"
    /\ run = 1
    /\ first = <<>>
    /\ Constructed
    /\ ServiceIdle

Search ==
    /\ pc = "search"
    /\ result' = search_in_text(doc.text, doc.query, ContextChars)
    /\ pc' = "searched"
    /\ UNCHANGED <<doc, run, first, page_count, page_num, line_idx, current_paragraph,
                   blocks, images, outline, plain_text_parts, char_offset,
                   median_font_size, svc_vars,
                   self_doc>>

NextSearch == Search

SpecSearch == InitSearch /\ [][NextSearch]_vars


(***************************************************************************)
(* Properties of the search                                                *)
(***************************************************************************)
Searched == pc = "searched"

\* the indices (0-based) at which query occurs in text, whatever the case
Occurrences ==
    { i \in 0..(Len(doc.text) - Len(doc.query)) :
        str_lower(Slice(doc.text, i, i + Len(doc.query))) = str_lower(doc.query) }

\* C20: search_in_text returns one result per case-insensitive occurrence of
\* query in text, in ascending order of start_idx, cut to the first 50; every
\* result has end_idx - start_idx = len(query), text = text[start_idx:end_idx],
\* and as context the at most 100 characters right before and right after.
C20_SearchResults ==
    Searched =>
        /\ Len(result) = IF Cardinality(Occurrences) < SearchLimit
                         THEN Cardinality(Occurrences) ELSE SearchLimit
        /\ \A k \in 1..Len(result) :
              LET r == result[k]
                  before == IF r.start_idx > ContextChars
                            THEN r.start_idx - ContextChars ELSE 0
              IN  /\ r.start_idx \in Occurrences
                  /\ Cardinality({i \in Occurrences : i < r.start_idx}) = k - 1
                  /\ r.end_idx - r.start_idx = Len(doc.query)
                  /\ r.text = Slice(doc.text, r.start_idx, r.end_idx)
                  /\ r.context_before = Slice(doc.text, before, r.start_idx)
                  /\ r.context_after =
                        Slice(doc.text, r.end_idx, r.end_idx + ContextChars)

(***************************************************************************)
(* Properties of the block ids                                             *)
(***************************************************************************)
\* the positions of the blocks of the services result that carry an id
SvcIdentified == {i \in 1..Len(s_result.blocks) : "id" \in DOMAIN s_result.blocks[i]}

\* C21: no two blocks of one result share an id; here for the heading ids
\* that process_text_block assigns, in the result of extract_structured_content.
C21_UniqueIds ==
    SvcReturned =>
        \A i, j \in SvcIdentified :
            s_result.blocks[i].id = s_result.blocks[j].id => i = j

(***************************************************************************)
(* Properties of the Math blocks                                           *)
(***************************************************************************)
\* the positions of the Math blocks of the result
MathBlocks == {i \in 1..Len(result.blocks) : result.blocks[i].type = "math"}

\* the line holds a summation, product or integral sign
HasBigOperator(text) ==
    \E sym \in {"U+2211", "U+220F", "U+222B"} : Has(text, sym)

\* C22: a Math block has display = true exactly when its line is longer than
\* 20 characters, or holds an equals sign, or holds a summation, product or
\* integral sign.
C22_DisplayFlag ==
    Returned =>
        \A i \in MathBlocks :
            LET text == result.blocks[i].alt_text
            IN  result.blocks[i].display <=>
                    \/ Len(Strip(text)) > 20
                    \/ Has(text, "=")
                    \/ HasBigOperator(text)

\* the line is display mathematics: long, or with an equals sign or a
\* summation, product or integral sign
DisplayWorthy(text) ==
    \/ Len(Strip(text)) > 20
    \/ Has(text, "=")
    \/ HasBigOperator(text)

\* C23: only display math gets a block of its own: the result holds no Math
\* block for a math line that is not display mathematics.
C23_InlineMathEmbedded ==
    Returned =>
        \A i \in MathBlocks : DisplayWorthy(result.blocks[i].alt_text)

(***************************************************************************)
(* PDFExtractor._text_to_latex(text) on its own                            *)
(*   doc: the text; result: what the converter returns                     *)
(***************************************************************************)
MaxLatexLen == 4

LatexAlphabet == {"U+03B1", "x", "2", "/", "^", "_", " "}

InitLatex ==
    /\ doc \in SeqsUpTo(LatexAlphabet, MaxLatexLen)
    /\ pc = "latex"
    /\ run = 1
    /\ first = <<>>
    /\ Constructed
    /\ ServiceIdle

Convert ==
    /\ pc = "latex"
    /\ result' = text_to_latex(doc)
    /\ pc' = "converted"
    /\ UNCHANGED <<doc, run, first, page_count, page_num, line_idx, current_paragraph,
                   blocks, images, outline, plain_text_parts, char_offset,
                   median_font_size, svc_vars,
                   self_doc>>

NextLatex == Convert

SpecLatex == InitLatex /\ [][NextLatex]_vars

Converted == pc = "converted"

\* one of the substitution rules has something to act on in text: a symbol of
\* the table, word/word, or ^ or _ before a digit or a letter
RuleFires(text) ==
    \/ \E i \in 1..Len(text) : text[i] \in DOMAIN LatexTable
    \/ \E i \in 2..(Len(text) - 1) :
          text[i] = "/" /\ IsWord(text[i - 1]) /\ IsWord(text[i + 1])
    \/ \E i \in 1..(Len(text) - 1) :
          /\ text[i] \in {"^", "_"}
          /\ text[i + 1] \in Digits \cup AsciiLower \cup AsciiUpper

\* C24: _text_to_latex returns None exactly when no substitution rule changes
\* its input (so also for the empty input), and what it returns otherwise is
\* never equal to its input.
C24_NoConversion ==
    Converted =>
        IF RuleFires(doc) THEN result # None /\ result # doc
        ELSE result = None

\* "x/2" has been converted to a fraction
C24_Witness ==
    /\ Converted
    /\ doc = <<"x", "/", "2">>
    /\ result = <<"\\","f","r","a","c","{","x","}","{","2","}">>

(***************************************************************************)
(* Properties of the except branch of extract()                            *)
(***************************************************************************)
\* C25: extract() never returns a partially built result: when a statement
\* raises after the document was opened, what is returned has empty blocks,
\* outline, images, metadata and plain_text and page_count 0, and the
\* document handle has been closed.
C25_NoPartialResult ==
    [][ (Raises /\ self_doc = "open") =>
            /\ pc' = "done"
            /\ result'.blocks = <<>>
            /\ result'.outline = <<>>
            /\ result'.images = <<>>
            /\ result'.metadata = <<>>
            /\ result'.plain_text = <<>>
            /\ result'.page_count = 0
            /\ self_doc' = "closed" ]_vars

\* extract() has returned from its except branch after blocks had been emitted
C25_Witness ==
    /\ Returned
    /\ self_doc = "closed"
    /\ blocks # <<>>
    /\ result.blocks = <<>>
    /\ result.page_count = 0

(***************************************************************************)
(* Properties of the paragraphs of extract_structured_content              *)
(***************************************************************************)
TextCount(bs) == Cardinality({i \in 1..Len(bs) : bs[i].type = "text"})

\* C26: a paragraph boundary decided by is_new_paragraph survives to the
\* output: two Text blocks that follow one another before post_process_blocks
\* (the paragraph flushed at the boundary and the one the new line started)
\* are not merged, so post-processing leaves as many Text blocks as it found.
C26_BoundarySurvives ==
    [][ (pc = "svc" /\ pc' = "svc_done") =>
            TextCount(s_result'.blocks) = TextCount(svc_flush(Accumulator).blocks) ]_vars

(***************************************************************************)
(* Properties of the character offsets                                     *)
(***************************************************************************)
RECURSIVE PartsLength(_)
PartsLength(parts) ==
    IF parts = <<>> THEN 0 ELSE Len(parts[1]) + 2 + PartsLength(Tail(parts))

\* the text a block stands for in plain_text
OwnText(b) == IF b.type = "math" THEN b.alt_text ELSE b.content

\* C27: char_offset is the sum of (length + 2) over the plain-text parts
\* emitted so far, and in the result the characters of plain_text from
\* char_start to char_end of a Heading, Text or Math block are that block's
\* own text.
C27_OffsetsLocateText ==
    /\ pc \in {"page", "lines", "toc", "finish"} =>
          char_offset = PartsLength(plain_text_parts)
    /\ Returned =>
          \A i \in 1..Len(result.blocks) :
              result.blocks[i].type \in {"heading", "text", "math"} =>
                  Slice(result.plain_text, result.blocks[i].source.char_start,
                        result.blocks[i].source.char_end)
                      = OwnText(result.blocks[i])

\* a result with a Heading, a Text and a Math block
C27_Witness ==
    /\ Returned
    /\ \A ty \in {"heading", "text", "math"} :
          \E i \in 1..Len(result.blocks) : result.blocks[i].type = ty

(***************************************************************************)
(* Properties of the images map                                            *)
(***************************************************************************)

\* the blocks of the result that refer to an image
ImageRefs ==
    {i \in 1..Len(result.blocks) :
        /\ result.blocks[i].type \in {"figure", "math"}
        /\ result.blocks[i].image_id # None}

\* C28: in a successful result of extract() every image reference of a Figure
\* or Math block is a key of the images map, and every key of the images map
\* is the reference of exactly one block.
C28_ImagesReferencedOnce ==
    (Returned /\ result.page_count > 0) =>
        /\ \A i \in ImageRefs : result.blocks[i].image_id \in DOMAIN result.images
        /\ \A k \in DOMAIN result.images :
              Cardinality({i \in ImageRefs : result.blocks[i].image_id = k}) = 1

(***************************************************************************)
(* Properties of the list merge                                            *)
(***************************************************************************)

\* the line _process_text_block is about to read
PendingLine == PageLines(CurPage)[line_idx + 1]

\* the next line is a list line that _add_list_item merges into the last block:
\* no paragraph is pending, and the last block is a list of the line's kind
MergesListLine ==
    /\ pc = "lines"
    /\ line_idx < Len(PageLines(CurPage))
    /\ "bbox" \in DOMAIN PendingLine
    /\ LET sig == LineSignals(PendingLine)
       IN  /\ sig.line_text # <<>>
           /\ classify_line(sig.line_text, sig.max_font_size, sig.is_bold,
                            sig.math_chars, sig.total_chars, median_font_size)
                 = "list"
           /\ current_paragraph = <<>>
           /\ blocks # <<>>
           /\ blocks[Len(blocks)].type = "list"
           /\ blocks[Len(blocks)].ordered = list_ordered(sig.line_text)

\* C29: a list line merged into the preceding List block appends one item to
\* that block, one part to the plain-text parts and advances char_offset; the
\* block's id, ordered flag and source, every other block, the images and the
\* outline stay as they are.
C29_MergeFrame ==
    [][ MergesListLine =>
          LET cleaned == clean_list_marker(LineSignals(PendingLine).line_text)
              n == Len(blocks)
          IN  /\ Len(blocks') = n
              /\ \A i \in 1..(n - 1) : blocks'[i] = blocks[i]
              /\ blocks'[n].items = Append(blocks[n].items, cleaned)
              /\ blocks'[n].id = blocks[n].id
              /\ blocks'[n].ordered = blocks[n].ordered
              /\ blocks'[n].source = blocks[n].source
              /\ blocks'[n].type = "list"
              /\ plain_text_parts' = Append(plain_text_parts, cleaned)
              /\ char_offset' = char_offset + Len(cleaned) + 2
              /\ images' = images
              /\ outline' = outline ]_vars

C29_Witness ==
    /\ pc = "lines"
    /\ line_idx > 0
    /\ blocks # <<>>
    /\ blocks[Len(blocks)].type = "list"
    /\ Len(blocks[Len(blocks)].items) > 1

(***************************************************************************)
(* Properties of a TOC that raises                                         *)
(***************************************************************************)

\* _extract_toc raises inside its try: at get_toc(), or at an entry once the
\* TOC is long enough to be mapped
TocRaises ==
    \/ "get_toc" \in DOMAIN doc
    \/ /\ Len(doc.toc) > Len(outline)
       /\ \E i \in 1..Len(doc.toc) : "dest" \in DOMAIN doc.toc[i]

\* C30: when reading the TOC or mapping one of its entries raises, _extract_toc
\* returns normally and leaves the outline the heading-derived outline, with
\* the blocks, the images and the plain text as they were.
C30_TocAllOrNothing ==
    [][ (pc = "toc" /\ TocRaises) =>
          /\ pc' = "finish"
          /\ outline' = outline
          /\ outline' = build_outline(blocks)
          /\ blocks' = blocks
          /\ images' = images
          /\ plain_text_parts' = plain_text_parts
          /\ char_offset' = char_offset ]_vars

C30_Witness ==
    /\ Returned
    /\ result.page_count > 0
    /\ "get_toc" \notin DOMAIN doc
    /\ doc.toc # <<>>
    /\ "dest" \notin DOMAIN doc.toc[1]
    /\ "dest" \in DOMAIN doc.toc[Len(doc.toc)]
    /\ Len(doc.toc) > Len(result.outline)
    /\ result.outline # <<>>
    /\ result.outline = build_outline(result.blocks)

=============================================================================
